---- MODULE Spec2Model ----
(***************************************************************************)
(* Order lifecycle of ShipUp (backend/src/services/OrderService.ts) and    *)
(* the one-time codes of its auth and partner-login services.              *)
(* Every service method is a request handler that suspends at each await   *)
(* on the persistence layer; a handler is modelled as a process whose      *)
(* steps are the stretches of code between two awaits that touch mutable   *)
(* state, so that concurrent requests interleave exactly there.            *)
(***************************************************************************)
EXTENDS Integers, Sequences, FiniteSets, TLC

\* ------------------------------------------------------------------ bounds
MaxOrders == 1
MaxProcs == 2
MaxRatings == 2
MaxAttempts == 2

OrderIds == 1..MaxOrders
Procs == 1..MaxProcs

\* generateOTP(6) draws a code; two distinct codes are told apart.
Codes == {111111, 222222}

\* ------------------------------------------------------------- enumerations
OrderStatus ==
  {"PENDING", "CONFIRMED", "PICKED_UP", "IN_TRANSIT", "OUT_FOR_DELIVERY",
   "DELIVERED", "CANCELLED", "RETURNED"}

\* The user store as the order service sees it through findById: one customer,
\* two active delivery partners and a deactivated one.  "u0" resolves to nobody.
Users == {"c1", "p1", "p2", "p3"}
isActive == [u \in Users |-> u # "p3"]
CustomerRefs == {"c1", "u0"}
PartnerRefs == {"p1", "p2", "p3", "u0"}
NoPartner == "none"

\* The OTP purpose a user asks a code for through the auth service (the phone
\* purpose differs from it only in the flag a verification sets), and the
\* order of a code issued for no order.
AuthTypes == {"EMAIL_VERIFICATION"}
NoOrder == 0

\* The partner accounts (q2 is deactivated) and the addresses a login names
\* (q0 is registered to nobody).
PartnerAccounts == {"q1", "q2"}
partnerIsActive == [a \in PartnerAccounts |-> a # "q2"]
PartnerEmails == {"q1", "q2", "q0"}

\* rateOrder's inputs: who rates, and the lowest and the highest rating.
RatingTypes == {"customer", "delivery_partner"}
Ratings == {1, 5}
NoRating == [t \in RatingTypes |-> 0]

VARIABLES
  orders,   \* the order collection: orders[id] is the persisted document
  otps,     \* the OTP collection: a set of OTP records
  procs,    \* the requests in flight: procs[p] is handler p's position and locals
  partnerRatings,  \* the rating updates applied to the partners, in order
  verified, \* what successful verifications have set: <<user, OTP type>> for a
            \* verified e-mail address or phone, <<partner, "login">> for a login
  attemptCeiling, \* the configured ceiling of wrong codes per OTP record; 0 when
            \* the ceiling is beyond the attempts made, the count of which then
            \* decides nothing and is not kept
  locations,   \* the location collection: the stored samples, oldest first
  now,         \* the server clock (Date.now()), in seconds
  partnerInfo, \* deliveryPartnerInfo of the partners: last update, online flag
  locProcs,    \* the location requests in flight
  index        \* what the spatial query has to choose from: the partners with
               \* their position, rating and completed deliveries, in its order

locvars == <<locations, now, partnerInfo, locProcs, index>>

vars == <<orders, otps, procs, partnerRatings, verified, attemptCeiling, locvars>>

\* ------------------------------------------------------------------ errors
Ok == [kind |-> "OK", from |-> "-", to |-> "-"]
Err(k) == [kind |-> k, from |-> "-", to |-> "-"]
\* createError(`Invalid status transition from ${order.status} to ${newStatus}`, 400)
InvalidTransition(s, t) == [kind |-> "InvalidTransition", from |-> s, to |-> t]

\* ------------------------------------------------------- the state machine
validTransitions ==
  [s \in OrderStatus |->
     CASE s = "PENDING" -> {"CONFIRMED", "CANCELLED"}
       [] s = "CONFIRMED" -> {"PICKED_UP", "CANCELLED"}
       [] s = "PICKED_UP" -> {"IN_TRANSIT", "RETURNED"}
       [] s = "IN_TRANSIT" -> {"OUT_FOR_DELIVERY", "RETURNED"}
       [] s = "OUT_FOR_DELIVERY" -> {"DELIVERED", "RETURNED"}
       [] OTHER -> {}]

\* A table with one more edge: IN_TRANSIT may go straight to DELIVERED.
isValidStatusTransition_ExtraEdge(currentStatus, newStatus) ==
  \/ newStatus \in validTransitions[currentStatus]
  \/ (currentStatus = "IN_TRANSIT" /\ newStatus = "DELIVERED")

isValidStatusTransition(currentStatus, newStatus) ==
  newStatus \in validTransitions[currentStatus]

\* ------------------------------------------------------------ process state
\* A handler's position and locals: read is order.status as findById returned
\* it, refund is order.paymentStatus === COMPLETED.
IdleProc ==
  [op |-> "idle", pc |-> "idle", oid |-> 0, user |-> "-", newStatus |-> "-",
   code |-> 0, read |-> "-", refund |-> FALSE, rating |-> 0,
   ratingType |-> "-", type |-> "-", res |-> Err("-"), phone |-> "-",
   price |-> <<>>]

\* Slot 1 is the caller whose results are looked at; the other slots carry the
\* traffic that runs beside it.
Observed(p) == p = 1

\* The handler in slot p returns r.  For the observed caller the operation and
\* its outcome stay visible until it takes them; another slot is free at once.
Done(p, pr, r) ==
  IF Observed(p)
    THEN [IdleProc EXCEPT !.op = pr.op, !.pc = "done", !.res = r]
    ELSE IdleProc

Exists(id) == id \in DOMAIN orders

Order(id) == orders[id]

\* ------------------------------------------------- the order repository
\* orderRepository.create: the new document gets the next id.
RepoCreate(customer) ==
  Append(orders,
         [userId |-> customer, status |-> "PENDING",
          deliveryPartnerId |-> NoPartner, paymentStatus |-> "PENDING",
          confirmedAt |-> FALSE, actualPickupTime |-> FALSE,
          actualDeliveryTime |-> FALSE, cancelledAt |-> FALSE,
          rating |-> NoRating])

\* orderRepository.assignDeliveryPartner(orderId, deliveryPartnerId)
RepoAssignDeliveryPartner(id, partner) ==
  [orders EXCEPT ![id].deliveryPartnerId = partner,
                 ![id].status = "CONFIRMED",
                 ![id].confirmedAt = TRUE]

\* orderRepository.updateStatus(orderId, status, notes): the call carries the
\* new status and the notes, neither the status the caller read nor updateData.
RepoUpdateStatus(id, status) ==
  [orders EXCEPT ![id].status = status]

\* orderRepository.cancelOrder(orderId, reason, cancelledBy)
RepoCancelOrder(id) ==
  [orders EXCEPT ![id].status = "CANCELLED", ![id].cancelledAt = TRUE]

\* orderRepository.rateOrder(orderId, rating, comment, ratingType)
RepoRateOrder(id, rating, ratingType) ==
  [orders EXCEPT ![id].rating[ratingType] = rating]

\* orderRepository.update(orderId, { paymentStatus })
RepoUpdatePayment(id, pay) ==
  [orders EXCEPT ![id].paymentStatus = pay]

\* --------------------------------------------------- the OTP repository
OtpKey(r, subject, type, order) ==
  r.subject = subject /\ r.type = type /\ r.order = order

\* otpRepository.createOTP(userId, type, code, orderId): supersedes the record
\* of the same (subject, purpose, order).
RepoCreateOTP(subject, type, code, order) ==
  {r \in otps : ~OtpKey(r, subject, type, order)}
    \cup {[subject |-> subject, type |-> type, order |-> order,
           code |-> code, consumed |-> FALSE, expired |-> FALSE,
           attempts |-> 0]}

\* The records otpRepository.verifyOTP(userId, type, code) can look at: the
\* call names no order.
OtpMatching(subject, type) ==
  {r \in otps : r.subject = subject /\ r.type = type}

OtpActive(subject, type) ==
  {r \in OtpMatching(subject, type) : ~r.consumed}

\* The records that can still be verified: unconsumed and not expired.
OtpLive(subject, type, order) ==
  {r \in otps : OtpKey(r, subject, type, order) /\ ~r.consumed /\ ~r.expired}

\* A record that has had as many wrong codes as the configured ceiling allows
\* is invalidated.
Exhausted(r) == attemptCeiling > 0 /\ r.attempts >= attemptCeiling

\* otpRepository.verifyOTP(userId, type, code) called by request p, whose
\* record pr goes on at nextPc when the code is accepted.  An invalidated
\* record is reported exhausted; an unconsumed record past its expiry is
\* consumed and reported expired; a matching code consumes the record; any
\* other code is counted against it.
RepoVerifyOTP(p, pr, subject, type, code, nextPc) ==
  IF OtpActive(subject, type) = {}
    THEN /\ otps' = otps
         /\ procs' = [procs EXCEPT ![p] =
              Done(p, pr, Err(IF OtpMatching(subject, type) = {}
                                THEN "OTPNotFound"
                                ELSE "OTPAlreadyConsumed"))]
    ELSE \E r \in OtpActive(subject, type) :
           IF Exhausted(r)
             THEN /\ otps' = otps
                  /\ procs' = [procs EXCEPT ![p] =
                                 Done(p, pr, Err("OTPExhausted"))]
           ELSE IF r.expired
             THEN /\ otps' = (otps \ {r}) \cup {[r EXCEPT !.consumed = TRUE]}
                  /\ procs' = [procs EXCEPT ![p] =
                                 Done(p, pr, Err("OTPExpired"))]
           ELSE IF r.code = code
             THEN /\ otps' = (otps \ {r}) \cup {[r EXCEPT !.consumed = TRUE]}
                  /\ procs' = [procs EXCEPT ![p] =
                                 [pr EXCEPT !.pc = nextPc, !.code = 0]]
           ELSE /\ otps' = IF attemptCeiling = 0
                             THEN otps
                             ELSE (otps \ {r})
                                    \cup {[r EXCEPT !.attempts = @ + 1]}
                /\ procs' = [procs EXCEPT ![p] =
                               Done(p, pr, Err("OTPMismatch"))]

\* The expiry time of an OTP record passes.
expire(r) ==
  /\ r \in otps
  /\ ~r.expired
  /\ otps' = (otps \ {r}) \cup {[r EXCEPT !.expired = TRUE]}
  /\ UNCHANGED <<orders, procs, partnerRatings, verified, attemptCeiling, locvars>>

\* generateOTP(6) for a record of the given purpose.  Codes are only ever
\* compared for equality, and only with codes of the same purpose, so the
\* codes are named in the order of their first appearance: a draw is a code
\* the collection already holds for that purpose or the least one it does not.
generateOTP(type) ==
  LET used == {r.code : r \in {x \in otps : x.type = type}}
      unused == Codes \ used
  IN used \cup {c \in unused : \A d \in unused : c <= d}

\* ------------------------------------------------------------- createOrder
\* createOrder without the customer lookup of lines 46-50.
createOrder_NoLookup(p, customerId) ==
  /\ procs[p].pc = "idle"
  /\ Len(orders) < MaxOrders
  /\ orders' = RepoCreate(customerId)
  /\ procs' = [procs EXCEPT ![p] =
        [IdleProc EXCEPT !.op = "createOrder", !.user = customerId,
                         !.pc = "otp_pickup", !.oid = Len(orders')]]
  /\ UNCHANGED <<otps, partnerRatings, verified, attemptCeiling, locvars>>

\* lines 45-92: customer lookup, pricing, orderRepository.create
createOrder(p, customerId) ==
  /\ procs[p].pc = "idle"
  /\ LET pr == [IdleProc EXCEPT !.op = "createOrder", !.user = customerId]
     IN IF customerId \notin Users
          THEN /\ procs' = [procs EXCEPT ![p] =
                              Done(p, pr, Err("CustomerNotFound"))]
               /\ UNCHANGED <<orders, otps, partnerRatings, verified, attemptCeiling, locvars>>
          ELSE /\ Len(orders) < MaxOrders
               /\ orders' = RepoCreate(customerId)
               /\ procs' = [procs EXCEPT ![p] =
                     [pr EXCEPT !.pc = "otp_pickup", !.oid = Len(orders')]]
               /\ UNCHANGED <<otps, partnerRatings, verified, attemptCeiling, locvars>>

\* lines 95-100
createPickupOTP(p) ==
  /\ procs[p].pc = "otp_pickup"
  /\ \E c \in generateOTP("PICKUP") :
       otps' = RepoCreateOTP(procs[p].user, "PICKUP", c, procs[p].oid)
  /\ procs' = [procs EXCEPT ![p].pc = "otp_delivery"]
  /\ UNCHANGED <<orders, partnerRatings, verified, attemptCeiling, locvars>>

\* The second createOTP issued for the pickup purpose again.
createDeliveryOTP_AsPickup(p) ==
  /\ procs[p].pc = "otp_delivery"
  /\ \E c \in generateOTP("PICKUP") :
       otps' = RepoCreateOTP(procs[p].user, "PICKUP", c, procs[p].oid)
  /\ procs' = [procs EXCEPT ![p] = Done(p, procs[p], Ok)]
  /\ UNCHANGED <<orders, partnerRatings, verified, attemptCeiling, locvars>>

\* lines 102-107
createDeliveryOTP(p) ==
  /\ procs[p].pc = "otp_delivery"
  /\ \E c \in generateOTP("DELIVERY") :
       otps' = RepoCreateOTP(procs[p].user, "DELIVERY", c, procs[p].oid)
  /\ procs' = [procs EXCEPT ![p] = Done(p, procs[p], Ok)]
  /\ UNCHANGED <<orders, partnerRatings, verified, attemptCeiling, locvars>>

\* lines 95-100 when the first createOTP rejects: the order of lines 79-92
\* is in the store, the catch block logs and rethrows (lines 111-114).
createPickupOTPFails(p) ==
  /\ procs[p].pc = "otp_pickup"
  /\ procs' = [procs EXCEPT ![p] = Done(p, procs[p], Err("OTPStoreFailed"))]
  /\ UNCHANGED <<orders, otps, partnerRatings, verified, attemptCeiling, locvars>>

\* lines 102-107 when the second createOTP rejects.
createDeliveryOTPFails(p) ==
  /\ procs[p].pc = "otp_delivery"
  /\ procs' = [procs EXCEPT ![p] = Done(p, procs[p], Err("OTPStoreFailed"))]
  /\ UNCHANGED <<orders, otps, partnerRatings, verified, attemptCeiling, locvars>>

\* lines 33-92 run again for the request whose createOrder has just failed on
\* a createOTP: the request carries nothing that names the earlier attempt,
\* so the order is created as for a first request.
createOrderRetry(p, customerId) ==
  /\ procs[p].pc = "done"
  /\ procs[p].op = "createOrder"
  /\ procs[p].res = Err("OTPStoreFailed")
  /\ customerId \in Users
  /\ Len(orders) <= MaxOrders
  /\ Order(Len(orders)).userId = customerId
  /\ orders' = RepoCreate(customerId)
  /\ procs' = [procs EXCEPT ![p] =
       [IdleProc EXCEPT !.op = "createOrder", !.user = customerId,
                        !.pc = "otp_pickup", !.oid = Len(orders')]]
  /\ UNCHANGED <<otps, partnerRatings, verified, attemptCeiling, locvars>>

\* --------------------------------------------------- assignDeliveryPartner
\* The checks without the one of lines 197-199 (order already assigned).
AssignCheck_NoAssignedCheck(p, pr, orderId, deliveryPartnerId) ==
  IF ~Exists(orderId) THEN Done(p, pr, Err("OrderNotFound"))
  ELSE IF Order(orderId).status # "PENDING"
    THEN Done(p, pr, Err("InvalidState"))
  ELSE IF deliveryPartnerId \notin Users
    THEN Done(p, pr, Err("PartnerNotFound"))
  ELSE IF ~isActive[deliveryPartnerId]
    THEN Done(p, pr, Err("PartnerIneligible"))
  ELSE [pr EXCEPT !.pc = "assign_write", !.read = Order(orderId).status]

\* The checks without the one of lines 211-213 (partner not active).
AssignCheck_NoActiveCheck(p, pr, orderId, deliveryPartnerId) ==
  IF ~Exists(orderId) THEN Done(p, pr, Err("OrderNotFound"))
  ELSE IF Order(orderId).deliveryPartnerId # NoPartner
    THEN Done(p, pr, Err("AlreadyAssigned"))
  ELSE IF Order(orderId).status # "PENDING"
    THEN Done(p, pr, Err("InvalidState"))
  ELSE IF deliveryPartnerId \notin Users
    THEN Done(p, pr, Err("PartnerNotFound"))
  ELSE [pr EXCEPT !.pc = "assign_write", !.read = Order(orderId).status]

\* lines 192-213: the checks on the order read and on the partner
AssignCheck(p, pr, orderId, deliveryPartnerId) ==
  IF ~Exists(orderId) THEN Done(p, pr, Err("OrderNotFound"))
  ELSE IF Order(orderId).deliveryPartnerId # NoPartner
    THEN Done(p, pr, Err("AlreadyAssigned"))
  ELSE IF Order(orderId).status # "PENDING"
    THEN Done(p, pr, Err("InvalidState"))
  ELSE IF deliveryPartnerId \notin Users
    THEN Done(p, pr, Err("PartnerNotFound"))
  ELSE IF ~isActive[deliveryPartnerId]
    THEN Done(p, pr, Err("PartnerIneligible"))
  ELSE [pr EXCEPT !.pc = "assign_write", !.read = Order(orderId).status]

assignDeliveryPartner(p, orderId, deliveryPartnerId) ==
  /\ procs[p].pc = "idle"
  /\ procs' = [procs EXCEPT ![p] =
       AssignCheck(p, [IdleProc EXCEPT !.op = "assignDeliveryPartner",
                         !.oid = orderId, !.user = deliveryPartnerId],
                   orderId, deliveryPartnerId)]
  /\ UNCHANGED <<orders, otps, partnerRatings, verified, attemptCeiling, locvars>>

\* lines 215-221
assignWrite(p) ==
  /\ procs[p].pc = "assign_write"
  /\ IF Exists(procs[p].oid)
       THEN /\ orders' = RepoAssignDeliveryPartner(procs[p].oid, procs[p].user)
            /\ procs' = [procs EXCEPT ![p] = Done(p, procs[p], Ok)]
       ELSE /\ orders' = orders
            /\ procs' = [procs EXCEPT ![p] =
                           Done(p, procs[p], Err("AssignFailed"))]
  /\ UNCHANGED <<otps, partnerRatings, verified, attemptCeiling, locvars>>

\* ------------------------------------------------------- updateOrderStatus
\* lines 235-243: read the order, validate the transition
UpdateCheck(p, pr, orderId, newStatus) ==
  IF ~Exists(orderId) THEN Done(p, pr, Err("OrderNotFound"))
  ELSE IF ~isValidStatusTransition(Order(orderId).status, newStatus)
    THEN Done(p, pr, InvalidTransition(Order(orderId).status, newStatus))
  ELSE [pr EXCEPT !.pc = "update_write", !.oid = orderId,
                  !.newStatus = newStatus, !.read = Order(orderId).status]

updateOrderStatus(p, orderId, newStatus) ==
  /\ procs[p].pc = "idle"
  /\ procs' = [procs EXCEPT ![p] =
       UpdateCheck(p, [IdleProc EXCEPT !.op = "updateOrderStatus",
                         !.oid = orderId, !.newStatus = newStatus],
                   orderId, newStatus)]
  /\ UNCHANGED <<orders, otps, partnerRatings, verified, attemptCeiling, locvars>>

\* lines 245-269: updateData is built and left unused; the write is
\* orderRepository.updateStatus(orderId, newStatus, notes)
updateWrite(p) ==
  /\ procs[p].pc = "update_write"
  /\ IF Exists(procs[p].oid)
       THEN /\ orders' = RepoUpdateStatus(procs[p].oid, procs[p].newStatus)
            /\ procs' = [procs EXCEPT ![p] = Done(p, procs[p], Ok)]
       ELSE /\ orders' = orders
            /\ procs' = [procs EXCEPT ![p] =
                           Done(p, procs[p], Err("UpdateFailed"))]
  /\ UNCHANGED <<otps, partnerRatings, verified, attemptCeiling, locvars>>

\* -------------------------------------------------------------- cancelOrder
\* The read without the payment status that line 291 tests.
CancelCheck_NoRefund(p, pr, orderId) ==
  IF ~Exists(orderId) THEN Done(p, pr, Err("OrderNotFound"))
  ELSE [pr EXCEPT !.pc = "cancel_write", !.read = Order(orderId).status,
                  !.refund = FALSE]

\* lines 278-281: the read; nothing but the order's existence is checked
CancelCheck(p, pr, orderId) ==
  IF ~Exists(orderId) THEN Done(p, pr, Err("OrderNotFound"))
  ELSE [pr EXCEPT !.pc = "cancel_write", !.read = Order(orderId).status,
                  !.refund = (Order(orderId).paymentStatus = "COMPLETED")]

cancelOrder(p, orderId) ==
  /\ procs[p].pc = "idle"
  /\ procs' = [procs EXCEPT ![p] =
       CancelCheck(p, [IdleProc EXCEPT !.op = "cancelOrder", !.oid = orderId],
                   orderId)]
  /\ UNCHANGED <<orders, otps, partnerRatings, verified, attemptCeiling, locvars>>

\* lines 285-291, 298-299
cancelWrite(p) ==
  /\ procs[p].pc = "cancel_write"
  /\ IF Exists(procs[p].oid)
       THEN /\ orders' = RepoCancelOrder(procs[p].oid)
            /\ procs' = [procs EXCEPT ![p] =
                 IF procs[p].refund
                   THEN [procs[p] EXCEPT !.pc = "cancel_refund"]
                   ELSE Done(p, procs[p], Ok)]
       ELSE /\ orders' = orders
            /\ procs' = [procs EXCEPT ![p] =
                           Done(p, procs[p], Err("CancelFailed"))]
  /\ UNCHANGED <<otps, partnerRatings, verified, attemptCeiling, locvars>>

\* lines 291-299
cancelRefund(p) ==
  /\ procs[p].pc = "cancel_refund"
  /\ orders' = RepoUpdatePayment(procs[p].oid, "REFUNDED")
  /\ procs' = [procs EXCEPT ![p] = Done(p, procs[p], Ok)]
  /\ UNCHANGED <<otps, partnerRatings, verified, attemptCeiling, locvars>>

\* ---------------------------------------- verifyPickupOTP, verifyDeliveryOTP
\* The checks without the comparison of lines 313-315, 354-356.
VerifyCheck_NoAuth(p, pr, orderId, deliveryPartnerId, preState) ==
  IF ~Exists(orderId) THEN Done(p, pr, Err("OrderNotFound"))
  ELSE IF Order(orderId).status # preState THEN Done(p, pr, Err("NotReady"))
  ELSE [pr EXCEPT !.pc = "verify_otp"]

\* The checks without the comparison of lines 317-319, 358-360.
VerifyCheck_NoStatusCheck(p, pr, orderId, deliveryPartnerId, preState) ==
  IF ~Exists(orderId) THEN Done(p, pr, Err("OrderNotFound"))
  ELSE IF Order(orderId).deliveryPartnerId # deliveryPartnerId
    THEN Done(p, pr, Err("Unauthorized"))
  ELSE [pr EXCEPT !.pc = "verify_otp"]

VerifyCheck(p, pr, orderId, deliveryPartnerId, preState) ==
  IF ~Exists(orderId) THEN Done(p, pr, Err("OrderNotFound"))
  ELSE IF Order(orderId).deliveryPartnerId # deliveryPartnerId
    THEN Done(p, pr, Err("Unauthorized"))
  ELSE IF Order(orderId).status # preState THEN Done(p, pr, Err("NotReady"))
  ELSE [pr EXCEPT !.pc = "verify_otp"]

\* lines 308-319
verifyPickupOTP(p, orderId, otpCode, deliveryPartnerId) ==
  /\ procs[p].pc = "idle"
  /\ procs' = [procs EXCEPT ![p] =
       VerifyCheck(p, [IdleProc EXCEPT !.op = "verifyPickupOTP",
                         !.oid = orderId, !.code = otpCode,
                         !.user = deliveryPartnerId],
                   orderId, deliveryPartnerId, "CONFIRMED")]
  /\ UNCHANGED <<orders, otps, partnerRatings, verified, attemptCeiling, locvars>>

\* lines 349-360
verifyDeliveryOTP(p, orderId, otpCode, deliveryPartnerId) ==
  /\ procs[p].pc = "idle"
  /\ procs' = [procs EXCEPT ![p] =
       VerifyCheck(p, [IdleProc EXCEPT !.op = "verifyDeliveryOTP",
                         !.oid = orderId, !.code = otpCode,
                         !.user = deliveryPartnerId],
                   orderId, deliveryPartnerId, "OUT_FOR_DELIVERY")]
  /\ UNCHANGED <<orders, otps, partnerRatings, verified, attemptCeiling, locvars>>

VerifyType(pr) == IF pr.op = "verifyPickupOTP" THEN "PICKUP" ELSE "DELIVERY"
VerifyTarget(pr) == IF pr.op = "verifyPickupOTP" THEN "PICKED_UP" ELSE "DELIVERED"

\* The check of the code that counts the wrong codes and invalidates nothing.
verifyOTP_NoCeiling(p) ==
  /\ procs[p].pc = "verify_otp"
  /\ LET pr == procs[p]
         active == OtpActive(Order(pr.oid).userId, VerifyType(pr))
     IN IF active = {}
          THEN /\ otps' = otps
               /\ procs' = [procs EXCEPT ![p] = Done(p, pr, Err("OTPNotFound"))]
          ELSE \E r \in active :
                 IF r.code = pr.code
                   THEN /\ otps' = (otps \ {r}) \cup {[r EXCEPT !.consumed = TRUE]}
                        /\ procs' = [procs EXCEPT ![p] =
                                       [pr EXCEPT !.pc = "verify_update", !.code = 0]]
                   ELSE /\ otps' = (otps \ {r})
                                     \cup {[r EXCEPT !.attempts =
                                              IF @ < attemptCeiling THEN @ + 1 ELSE @]}
                        /\ procs' = [procs EXCEPT ![p] =
                                       Done(p, pr, Err("OTPMismatch"))]
  /\ UNCHANGED <<orders, partnerRatings, verified, attemptCeiling, locvars>>

\* The check of the code that takes no notice of a record's expiry.
verifyOTP_IgnoreExpiry(p) ==
  /\ procs[p].pc = "verify_otp"
  /\ LET pr == procs[p]
         active == OtpActive(Order(pr.oid).userId, VerifyType(pr))
     IN IF active = {}
          THEN /\ otps' = otps
               /\ procs' = [procs EXCEPT ![p] = Done(p, pr, Err("OTPNotFound"))]
          ELSE \E r \in active :
                 IF r.code = pr.code
                   THEN /\ otps' = (otps \ {r}) \cup {[r EXCEPT !.consumed = TRUE]}
                        /\ procs' = [procs EXCEPT ![p] =
                                       [pr EXCEPT !.pc = "verify_update", !.code = 0]]
                   ELSE /\ otps' = otps
                        /\ procs' = [procs EXCEPT ![p] =
                                       Done(p, pr, Err("OTPMismatch"))]
  /\ UNCHANGED <<orders, partnerRatings, verified, attemptCeiling, locvars>>

\* lines 321-330, 362-371: otpRepository.verifyOTP(order.userId, type, otpCode)
verifyOTP(p) ==
  /\ procs[p].pc = "verify_otp"
  /\ RepoVerifyOTP(p, procs[p], Order(procs[p].oid).userId,
                   VerifyType(procs[p]), procs[p].code, "verify_update")
  /\ UNCHANGED <<orders, partnerRatings, verified, attemptCeiling, locvars>>

\* lines 333-337, 374-378: the nested updateOrderStatus reads the order again
verifyUpdate(p) ==
  /\ procs[p].pc = "verify_update"
  /\ procs' = [procs EXCEPT ![p] =
       UpdateCheck(p, procs[p], procs[p].oid, VerifyTarget(procs[p]))]
  /\ UNCHANGED <<orders, otps, partnerRatings, verified, attemptCeiling, locvars>>

\* ---------------------------------------------------------------- rateOrder
\* The checks without the comparison of lines 400-402.
RateCheck_NoStatusCheck(p, pr, orderId) ==
  IF ~Exists(orderId) THEN Done(p, pr, Err("OrderNotFound"))
  ELSE [pr EXCEPT !.pc = "rate_write",
                  !.user = Order(orderId).deliveryPartnerId]

\* lines 395-402: the read and the checks; order.deliveryPartnerId of this
\* read is what line 410 tests.
RateCheck(p, pr, orderId) ==
  IF ~Exists(orderId) THEN Done(p, pr, Err("OrderNotFound"))
  ELSE IF Order(orderId).status # "DELIVERED"
    THEN Done(p, pr, Err("NotDelivered"))
  ELSE [pr EXCEPT !.pc = "rate_write",
                  !.user = Order(orderId).deliveryPartnerId]

rateOrder(p, orderId, rating, ratingType) ==
  /\ procs[p].pc = "idle"
  /\ Len(partnerRatings) < MaxRatings
  /\ procs' = [procs EXCEPT ![p] =
       RateCheck(p, [IdleProc EXCEPT !.op = "rateOrder", !.oid = orderId,
                       !.rating = rating, !.ratingType = ratingType],
                 orderId)]
  /\ UNCHANGED <<orders, otps, partnerRatings, verified, attemptCeiling, locvars>>

\* lines 404-410
rateWrite(p) ==
  /\ procs[p].pc = "rate_write"
  /\ IF Exists(procs[p].oid)
       THEN /\ orders' = RepoRateOrder(procs[p].oid, procs[p].rating,
                                       procs[p].ratingType)
            /\ procs' = [procs EXCEPT ![p] =
                 IF procs[p].ratingType = "customer" /\ procs[p].user # NoPartner
                   THEN [procs[p] EXCEPT !.pc = "rate_partner"]
                   ELSE Done(p, procs[p], Ok)]
       ELSE /\ orders' = orders
            /\ procs' = [procs EXCEPT ![p] =
                           Done(p, procs[p], Err("RateFailed"))]
  /\ UNCHANGED <<otps, partnerRatings, verified, attemptCeiling, locvars>>

\* lines 410-415: userRepository.updateDeliveryPartnerRating(partner, rating)
ratePartner(p) ==
  /\ procs[p].pc = "rate_partner"
  /\ partnerRatings' = Append(partnerRatings,
                              [partner |-> procs[p].user,
                               rating |-> procs[p].rating])
  /\ procs' = [procs EXCEPT ![p] = Done(p, procs[p], Ok)]
  /\ UNCHANGED <<orders, otps, verified, attemptCeiling, locvars>>

\* ------------------------------- AuthService: requestOTPVerification, verifyOTP
\* The issue that stores its code beside the records the tuple has.
requestOTPVerification_Insert(p, userId, type) ==
  /\ procs[p].pc = "idle"
  /\ LET pr == [IdleProc EXCEPT !.op = "requestOTPVerification",
                                !.user = userId, !.type = type]
     IN IF userId \notin Users
          THEN /\ otps' = otps
               /\ procs' = [procs EXCEPT ![p] = Done(p, pr, Err("UserNotFound"))]
          ELSE /\ \E c \in generateOTP(type) :
                    otps' = otps \cup {[subject |-> userId, type |-> type,
                                        order |-> NoOrder, code |-> c,
                                        consumed |-> FALSE, expired |-> FALSE,
                                        attempts |-> 0]}
               /\ procs' = [procs EXCEPT ![p] = Done(p, pr, Ok)]
  /\ UNCHANGED <<orders, partnerRatings, verified, attemptCeiling, locvars>>

\* AuthService.ts lines 213-242
requestOTPVerification(p, userId, type) ==
  /\ procs[p].pc = "idle"
  /\ LET pr == [IdleProc EXCEPT !.op = "requestOTPVerification",
                                !.user = userId, !.type = type]
     IN IF userId \notin Users
          THEN /\ otps' = otps
               /\ procs' = [procs EXCEPT ![p] = Done(p, pr, Err("UserNotFound"))]
          ELSE /\ \E c \in generateOTP(type) :
                    otps' = RepoCreateOTP(userId, type, c, NoOrder)
               /\ procs' = [procs EXCEPT ![p] = Done(p, pr, Ok)]
  /\ UNCHANGED <<orders, partnerRatings, verified, attemptCeiling, locvars>>

\* The request whose failed notification takes the stored code back.
requestOTPVerificationSendFails_Rollback(p, userId, type) ==
  /\ procs[p].pc = "idle"
  /\ userId \in Users
  /\ type = "EMAIL_VERIFICATION"
  /\ otps' = {r \in otps : ~OtpKey(r, userId, type, NoOrder)}
  /\ procs' = [procs EXCEPT ![p] =
       Done(p, [IdleProc EXCEPT !.op = "requestOTPVerification"],
            Err("NotificationFailed"))]
  /\ UNCHANGED <<orders, partnerRatings, verified, attemptCeiling, locvars>>

\* AuthService.ts lines 213-242 when sendOtpEmail (line 234) rejects: the
\* code has been stored (lines 222-228), the catch block logs and rethrows
\* (lines 238-241).
requestOTPVerificationSendFails(p, userId, type) ==
  /\ procs[p].pc = "idle"
  /\ userId \in Users
  /\ type = "EMAIL_VERIFICATION"
  /\ \E c \in generateOTP(type) :
       otps' = RepoCreateOTP(userId, type, c, NoOrder)
  /\ procs' = [procs EXCEPT ![p] =
       Done(p, [IdleProc EXCEPT !.op = "requestOTPVerification"],
            Err("NotificationFailed"))]
  /\ UNCHANGED <<orders, partnerRatings, verified, attemptCeiling, locvars>>

\* AuthService.ts lines 112-137.  The e-mail is sent without being awaited
\* (line 131), so the request returns the same whether or not it is
\* delivered.
requestPasswordReset(p, email) ==
  /\ procs[p].pc = "idle"
  /\ LET pr == [IdleProc EXCEPT !.op = "requestPasswordReset",
                                !.user = email,
                                !.type = "EMAIL_VERIFICATION"]
     IN IF email \notin Users
          THEN otps' = otps
          ELSE \E c \in generateOTP("EMAIL_VERIFICATION") :
                 otps' = RepoCreateOTP(email, "EMAIL_VERIFICATION", c, NoOrder)
  /\ procs' = [procs EXCEPT ![p] =
       Done(p, [IdleProc EXCEPT !.op = "requestPasswordReset"], Ok)]
  /\ UNCHANGED <<orders, partnerRatings, verified, attemptCeiling, locvars>>

\* The verification that accepts whatever code is submitted while the subject
\* has an unconsumed record.
AuthVerifyOTP_NoCompare(p, userId, type, otpCode) ==
  /\ procs[p].pc = "idle"
  /\ LET pr == [IdleProc EXCEPT !.op = "AuthVerifyOTP", !.user = userId,
                                !.type = type, !.code = otpCode]
     IN IF userId \notin Users
          THEN /\ otps' = otps
               /\ procs' = [procs EXCEPT ![p] = Done(p, pr, Err("UserNotFound"))]
        ELSE IF OtpActive(userId, type) = {}
          THEN /\ otps' = otps
               /\ procs' = [procs EXCEPT ![p] = Done(p, pr, Err("OTPNotFound"))]
        ELSE \E r \in OtpActive(userId, type) :
               /\ otps' = (otps \ {r}) \cup {[r EXCEPT !.consumed = TRUE]}
               /\ procs' = [procs EXCEPT ![p] =
                              [pr EXCEPT !.pc = "mark_verified", !.code = 0]]
  /\ UNCHANGED <<orders, partnerRatings, verified, attemptCeiling, locvars>>

\* AuthService.ts lines 244-256 (AuthService.verifyOTP)
AuthVerifyOTP(p, userId, type, otpCode) ==
  /\ procs[p].pc = "idle"
  /\ LET pr == [IdleProc EXCEPT !.op = "AuthVerifyOTP", !.user = userId,
                                !.type = type, !.code = otpCode]
     IN IF userId \notin Users
          THEN /\ otps' = otps
               /\ procs' = [procs EXCEPT ![p] = Done(p, pr, Err("UserNotFound"))]
          ELSE RepoVerifyOTP(p, pr, userId, type, otpCode, "mark_verified")
  /\ UNCHANGED <<orders, partnerRatings, verified, attemptCeiling, locvars>>

\* AuthService.ts lines 258-263: userRepository.verifyEmail / verifyPhone
markVerified(p) ==
  /\ procs[p].pc = "mark_verified"
  /\ verified' = verified \cup {<<procs[p].user, procs[p].type>>}
  /\ procs' = [procs EXCEPT ![p] = Done(p, procs[p], Ok)]
  /\ UNCHANGED <<orders, otps, partnerRatings, attemptCeiling, locvars>>

\* AuthService.ts lines 139-154: the user is looked up by e-mail and the
\* submitted code is verified against the user's EMAIL_VERIFICATION record.
resetPassword(p, email, otpCode) ==
  /\ procs[p].pc = "idle"
  /\ LET pr == [IdleProc EXCEPT !.op = "resetPassword", !.user = email,
                                !.type = "EMAIL_VERIFICATION",
                                !.code = otpCode]
     IN IF email \notin Users
          THEN /\ otps' = otps
               /\ procs' = [procs EXCEPT ![p] =
                              Done(p, pr, Err("InvalidRequest"))]
          ELSE RepoVerifyOTP(p, pr, email, "EMAIL_VERIFICATION", otpCode,
                             "reset_write")
  /\ UNCHANGED <<orders, partnerRatings, verified, attemptCeiling, locvars>>

\* AuthService.ts lines 156-164: userRepository.update stores the new
\* password; the change is recorded as the user's "password" mark.
resetWrite(p) ==
  /\ procs[p].pc = "reset_write"
  /\ verified' = verified \cup {<<procs[p].user, "password">>}
  /\ procs' = [procs EXCEPT ![p] = Done(p, procs[p], Ok)]
  /\ UNCHANGED <<orders, otps, partnerRatings, attemptCeiling, locvars>>

\* ------------------------------------------------------ AuthService.register
\* The e-mail addresses and phone numbers that registrations come with: two
\* spellings of one new address, another new address and the address of an
\* existing user.
RegisterEmails == {"n1", "N1", "n2", "c1"}
RegisterPhones == {"ph1", "ph2"}

\* String.prototype.toLowerCase on the addresses above.
toLowerCase(email) == IF email = "N1" THEN "n1" ELSE email

\* userRepository.findByEmailOrPhone: the users the repository holds are the
\* users of the system and those created by register.
EmailTaken(email) ==
  toLowerCase(email) \in Users \/ <<toLowerCase(email), "account">> \in verified

PhoneTaken(phone) == <<phone, "phone">> \in verified

\* The failure of generateVerificationOTPs that reaches the caller.
VerificationFailure_Rethrow(p, pr) == Done(p, pr, Err("RegistrationFailed"))

\* AuthService.ts lines 362-365 and 68: the catch block of
\* generateVerificationOTPs logs the failure and does not rethrow, and
\* register returns the user and the tokens.
VerificationFailure(p, pr) == Done(p, pr, Ok)

\* lines 33-46: the lookup of an existing user
register(p, email, phone) ==
  /\ procs[p].pc = "idle"
  /\ LET pr == [IdleProc EXCEPT !.op = "register",
                                !.user = toLowerCase(email), !.phone = phone]
     IN procs' = [procs EXCEPT ![p] =
          IF EmailTaken(email) THEN Done(p, pr, Err("EmailRegistered"))
          ELSE IF PhoneTaken(phone) THEN Done(p, pr, Err("PhoneRegistered"))
          ELSE [pr EXCEPT !.pc = "register_create"]]
  /\ UNCHANGED <<orders, otps, partnerRatings, verified, attemptCeiling, locvars>>

\* lines 48-61: hashPassword, userRepository.create and the two tokens
registerCreate(p) ==
  /\ procs[p].pc = "register_create"
  /\ verified' = verified \cup {<<procs[p].user, "account">>,
                                 <<procs[p].phone, "phone">>}
  /\ procs' = [procs EXCEPT ![p].pc = "register_email_otp"]
  /\ UNCHANGED <<orders, otps, partnerRatings, attemptCeiling, locvars>>

\* lines 336-344: the e-mail verification code is stored
registerEmailOTP(p) ==
  /\ procs[p].pc = "register_email_otp"
  /\ \E c \in generateOTP("EMAIL_VERIFICATION") :
       otps' = RepoCreateOTP(procs[p].user, "EMAIL_VERIFICATION", c, NoOrder)
  /\ procs' = [procs EXCEPT ![p].pc = "register_phone_otp"]
  /\ UNCHANGED <<orders, partnerRatings, verified, attemptCeiling, locvars>>

\* lines 346-354: the phone verification code is stored
registerPhoneOTP(p) ==
  /\ procs[p].pc = "register_phone_otp"
  /\ \E c \in generateOTP("PHONE_VERIFICATION") :
       otps' = RepoCreateOTP(procs[p].user, "PHONE_VERIFICATION", c, NoOrder)
  /\ procs' = [procs EXCEPT ![p].pc = "register_send"]
  /\ UNCHANGED <<orders, partnerRatings, verified, attemptCeiling, locvars>>

\* line 360 and lines 66-68: the e-mail is sent and register returns
registerSend(p) ==
  /\ procs[p].pc = "register_send"
  /\ procs' = [procs EXCEPT ![p] = Done(p, procs[p], Ok)]
  /\ UNCHANGED <<orders, otps, partnerRatings, verified, attemptCeiling, locvars>>

\* Either createOTP call (lines 338, 348) or sendOtpEmail (line 360) rejects.
registerVerificationFails(p) ==
  /\ procs[p].pc \in {"register_email_otp", "register_phone_otp",
                      "register_send"}
  /\ procs' = [procs EXCEPT ![p] = VerificationFailure(p, procs[p])]
  /\ UNCHANGED <<orders, otps, partnerRatings, verified, attemptCeiling, locvars>>

\* ------------------------------ PartnerService: requestLoginOtp, verifyLoginOtp
\* part_006 lines 96-129
requestLoginOtp(p, email) ==
  /\ procs[p].pc = "idle"
  /\ LET pr == [IdleProc EXCEPT !.op = "requestLoginOtp", !.user = email,
                                !.type = "EMAIL_VERIFICATION"]
     IN IF email \notin PartnerAccounts
          THEN /\ otps' = otps
               /\ procs' = [procs EXCEPT ![p] = Done(p, pr, Err("EmailNotFound"))]
        ELSE IF ~partnerIsActive[email]
          THEN /\ otps' = otps
               /\ procs' = [procs EXCEPT ![p] = Done(p, pr, Err("Deactivated"))]
        ELSE /\ \E c \in generateOTP("EMAIL_VERIFICATION") :
                  otps' = RepoCreateOTP(email, "EMAIL_VERIFICATION", c, NoOrder)
             /\ procs' = [procs EXCEPT ![p] = Done(p, pr, Ok)]
  /\ UNCHANGED <<orders, partnerRatings, verified, attemptCeiling, locvars>>

\* The login that leaves the record of an accepted code unconsumed.
verifyLoginOtp_NoConsume(p, email, otp) ==
  /\ procs[p].pc = "idle"
  /\ LET pr == [IdleProc EXCEPT !.op = "verifyLoginOtp", !.user = email,
                                !.type = "EMAIL_VERIFICATION", !.code = otp]
     IN IF email \notin PartnerAccounts
          THEN procs' = [procs EXCEPT ![p] = Done(p, pr, Err("InvalidRequest"))]
        ELSE IF ~partnerIsActive[email]
          THEN procs' = [procs EXCEPT ![p] = Done(p, pr, Err("Deactivated"))]
        ELSE IF \E r \in OtpActive(email, "EMAIL_VERIFICATION") : r.code = otp
          THEN procs' = [procs EXCEPT ![p] =
                           [pr EXCEPT !.pc = "login_update", !.code = 0]]
        ELSE procs' = [procs EXCEPT ![p] = Done(p, pr, Err("OTPMismatch"))]
  /\ UNCHANGED <<orders, otps, partnerRatings, verified, attemptCeiling, locvars>>

\* part_006 lines 131-155
verifyLoginOtp(p, email, otp) ==
  /\ procs[p].pc = "idle"
  /\ LET pr == [IdleProc EXCEPT !.op = "verifyLoginOtp", !.user = email,
                                !.type = "EMAIL_VERIFICATION", !.code = otp]
     IN IF email \notin PartnerAccounts
          THEN /\ otps' = otps
               /\ procs' = [procs EXCEPT ![p] = Done(p, pr, Err("InvalidRequest"))]
        ELSE IF ~partnerIsActive[email]
          THEN /\ otps' = otps
               /\ procs' = [procs EXCEPT ![p] = Done(p, pr, Err("Deactivated"))]
        ELSE RepoVerifyOTP(p, pr, email, "EMAIL_VERIFICATION", otp, "login_update")
  /\ UNCHANGED <<orders, partnerRatings, verified, attemptCeiling, locvars>>

\* part_006 lines 157-158: partnerRepository.updateLastLogin
updateLastLogin(p) ==
  /\ procs[p].pc = "login_update"
  /\ verified' = verified \cup {<<procs[p].user, "login">>}
  /\ procs' = [procs EXCEPT ![p] = Done(p, procs[p], Ok)]
  /\ UNCHANGED <<orders, otps, partnerRatings, attemptCeiling, locvars>>

\* --------------------------------------------------------------- the rest
\* The caller takes the result; its slot takes the next request.
return(p) ==
  /\ procs[p].pc = "done"
  /\ procs' = [procs EXCEPT ![p] = IdleProc]
  /\ UNCHANGED <<orders, otps, partnerRatings, verified, attemptCeiling, locvars>>

\* Payment capture, outside the order service, marks an order paid through
\* orderRepository.update.
completePayment(orderId) ==
  /\ Exists(orderId)
  /\ Order(orderId).paymentStatus = "PENDING"
  /\ orders' = RepoUpdatePayment(orderId, "COMPLETED")
  /\ UNCHANGED <<otps, procs, partnerRatings, verified, attemptCeiling, locvars>>

\* ================================================================ locations
\* LocationService (backend/src/middleware/logging.ts) and LocationController.
\* Time is counted in seconds and a position is a latitude in thousandths of a
\* degree on the meridian of Longitude, the one of 180 degrees; distances are
\* in metres.
MaxSamples == 3

\* The instants at which the clock is read.
Instants == {0, 1, 4, 5, 60, 65}

\* Positions 111 m, 1 km and 500 km north of the first one.
Latitudes == {12971, 12972, 12980, 17468}
Longitude == 180000

\* The partners that report positions; the account of "u0" has been removed.
LocSubjects == {"p1", "u0"}
LocPartners == LocSubjects \cap Users

\* additionalData.isOnline of an update.
OnlineFlags == {"absent", "true", "false"}

Abs(x) == IF x < 0 THEN -x ELSE x

\* lines 670-684.  For two points whose longitudes are equal or 360 degrees
\* apart, and for a point at a pole, the second term of a is 0, so that
\* a = sin^2(dLat/2) and c = |dLat| in radians: the distance is
\* R * |dLat| * pi / 180 with R = 6371 km, 111.195 m for a thousandth of a
\* degree.  The product is taken in two parts to stay within 32 bits.
calculateDistance(lat1, lon1, lat2, lon2) ==
  LET dLat == Abs(lat2 - lat1)
  IN (dLat \div 1000) * 111195 + ((dLat % 1000) * 111195) \div 1000

IdleLoc ==
  [op |-> "idle", pc |-> "idle", user |-> "-", latitude |-> 0,
   longitude |-> 0, delivery |-> 0, radius |-> 0, online |-> "-",
   res |-> Err("-"), result |-> <<>>]

LocDone(p, pr, r) ==
  IF Observed(p)
    THEN [IdleLoc EXCEPT !.op = pr.op, !.pc = "done", !.res = r]
    ELSE IdleLoc

\* The handler in slot p returns the list result.
LocReturns(p, pr, result) ==
  IF Observed(p)
    THEN [IdleLoc EXCEPT !.op = pr.op, !.pc = "done", !.res = Ok,
                         !.result = result]
    ELSE IdleLoc

NoLocation == [userId |-> "-", latitude |-> 0, longitude |-> 0, createdAt |-> 0]

\* locationRepository.getLatestLocation(userId): the newest stored sample of
\* the subject, NoLocation when it has none.
getLatestLocation(userId) ==
  LET own == {i \in DOMAIN locations : locations[i].userId = userId}
  IN IF own = {} THEN NoLocation
     ELSE locations[CHOOSE i \in own : \A j \in own : j <= i]

Valid == [isValid |-> TRUE, reason |-> "-"]
Invalid(reason) == [isValid |-> FALSE, reason |-> reason]

\* The validation without the comparison of lines 442-448.
validate_NoFrequencyCheck(lastLocation, latitude, longitude) ==
  IF lastLocation = NoLocation THEN Valid
  ELSE LET timeDiff == 1000 * (now - lastLocation.createdAt)
           distance == calculateDistance(lastLocation.latitude,
                                         lastLocation.longitude,
                                         latitude, longitude)
       IN IF distance * 3600 > 120 * timeDiff
            THEN Invalid("ImplausibleSpeed")
            ELSE Valid

\* lines 437-468: timeDiff in milliseconds; distance > maxSpeedKmh * timeDiff
\* / (1000 * 60 * 60) km with the distance in metres.
validate(lastLocation, latitude, longitude) ==
  IF lastLocation = NoLocation THEN Valid
  ELSE LET timeDiff == 1000 * (now - lastLocation.createdAt)
           distance == calculateDistance(lastLocation.latitude,
                                         lastLocation.longitude,
                                         latitude, longitude)
       IN IF timeDiff < 5000 THEN Invalid("TooFrequent")
          ELSE IF distance * 3600 > 120 * timeDiff
            THEN Invalid("ImplausibleSpeed")
          ELSE Valid

\* The handler that stores the update whatever the validation said.
updateLocation_IgnoreValidation(p, userId, latitude, online) ==
  /\ locProcs[p].pc = "idle"
  /\ locProcs' = [locProcs EXCEPT ![p] =
       [IdleLoc EXCEPT !.op = "updateLocation", !.user = userId,
                       !.latitude = latitude, !.online = online,
                       !.pc = "update_user_location"]]
  /\ UNCHANGED <<orders, otps, procs, partnerRatings, verified, attemptCeiling,
                 locations, now, partnerInfo, index>>

OrderVars == <<orders, otps, procs, partnerRatings, verified, attemptCeiling>>

\* LocationController.updateLocation, lines 15-23, with
\* validateLocationUpdate, lines 429-468: the last sample is read and the
\* update is refused or goes on to be stored.
updateLocation(p, userId, latitude, online) ==
  /\ locProcs[p].pc = "idle"
  /\ LET pr == [IdleLoc EXCEPT !.op = "updateLocation", !.user = userId,
                               !.latitude = latitude, !.online = online]
         validation == validate(getLatestLocation(userId), latitude, Longitude)
     IN locProcs' = [locProcs EXCEPT ![p] =
          IF validation.isValid
            THEN [pr EXCEPT !.pc = "update_user_location"]
            ELSE LocDone(p, pr, Err(validation.reason))]
  /\ UNCHANGED <<OrderVars, locations, now, partnerInfo, index>>

\* The validation that lets the update through when the lookup fails.
ValidationError_Open == Valid

\* lines 469-472: what validateLocationUpdate returns when
\* locationRepository.getLatestLocation rejects.
ValidationError == Invalid("ValidationError")

\* LocationController.updateLocation, lines 15-23, when the lookup of the
\* last sample raises an error inside validateLocationUpdate.
updateLocationLookupFails(p, userId, latitude, online) ==
  /\ locProcs[p].pc = "idle"
  /\ LET pr == [IdleLoc EXCEPT !.op = "updateLocation", !.user = userId,
                               !.latitude = latitude, !.online = online]
         validation == ValidationError
     IN locProcs' = [locProcs EXCEPT ![p] =
          IF validation.isValid
            THEN [pr EXCEPT !.pc = "update_user_location"]
            ELSE LocDone(p, pr, Err(validation.reason))]
  /\ UNCHANGED <<OrderVars, locations, now, partnerInfo, index>>

\* lines 47-72: the user is looked up and the sample is stored.
updateUserLocation(p) ==
  /\ locProcs[p].pc = "update_user_location"
  /\ IF locProcs[p].user \notin Users
       THEN /\ locations' = locations
            /\ locProcs' = [locProcs EXCEPT ![p] =
                              LocDone(p, locProcs[p], Err("UserNotFound"))]
       ELSE /\ Len(locations) < MaxSamples
            /\ locations' = Append(locations,
                 [userId |-> locProcs[p].user,
                  latitude |-> locProcs[p].latitude,
                  longitude |-> Longitude, createdAt |-> now])
            /\ locProcs' = [locProcs EXCEPT ![p].pc = "update_partner"]
  /\ UNCHANGED <<OrderVars, now, partnerInfo, index>>

\* lines 75-78
updateLastLocationUpdate(p) ==
  /\ locProcs[p].pc = "update_partner"
  /\ partnerInfo' = [partnerInfo EXCEPT
                       ![locProcs[p].user].lastLocationUpdate = now]
  /\ locProcs' = [locProcs EXCEPT ![p] =
       IF locProcs[p].online = "absent"
         THEN LocDone(p, locProcs[p], Ok)
         ELSE [locProcs[p] EXCEPT !.pc = "update_online"]]
  /\ UNCHANGED <<OrderVars, locations, now, index>>

\* lines 81-86
updateDeliveryPartnerOnlineStatus(p) ==
  /\ locProcs[p].pc = "update_online"
  /\ partnerInfo' = [partnerInfo EXCEPT
                       ![locProcs[p].user].isOnline = (locProcs[p].online = "true")]
  /\ locProcs' = [locProcs EXCEPT ![p] = LocDone(p, locProcs[p], Ok)]
  /\ UNCHANGED <<OrderVars, locations, now, index>>

\* The caller takes the response.
locReturn(p) ==
  /\ locProcs[p].pc = "done"
  /\ locProcs' = [locProcs EXCEPT ![p] = IdleLoc]
  /\ UNCHANGED <<OrderVars, locations, now, partnerInfo, index>>

\* Time passes.
Tick ==
  /\ \E t \in Instants : t > now /\ now' = t
  /\ UNCHANGED <<OrderVars, locations, partnerInfo, locProcs, index>>

\* ------------------------------------------------------- retention cleanup
\* req.body.daysOld of a cleanup request: absent, a number of days, or a value
\* that is no number ("other": a text such as "week").
CleanupDays == {-1, 0, 1, 6, 7, 8, 30, 31}
CleanupBodies ==
  {[kind |-> "absent", days |-> 0], [kind |-> "other", days |-> 0]}
    \cup {[kind |-> "number", days |-> d] : d \in CleanupDays}

\* LocationController.ts line 164: daysOld || 30.
DaysOrDefault(body) ==
  IF body.kind = "absent" \/ (body.kind = "number" /\ body.days = 0)
    THEN [kind |-> "number", days |-> 30]
    ELSE body

DaySeconds == 86400

\* The age of a stored sample in seconds.
Age(x) == now - x.createdAt

\* locationRepository.cleanupOldLocations(daysOld): the samples older than
\* daysOld days are removed; no sample is older than a value that is no number.
RepoCleanupOldLocations(daysOld) ==
  IF daysOld.kind = "other" THEN locations
  ELSE SelectSeq(locations, LAMBDA x : Age(x) <= daysOld.days * DaySeconds)

\* The cleanup without the floor of lines 415-417.
cleanupOldLocations_NoFloor(p, body) ==
  /\ locProcs[p].pc = "idle"
  /\ locations' = RepoCleanupOldLocations(DaysOrDefault(body))
  /\ locProcs' = [locProcs EXCEPT ![p] =
       LocDone(p, [IdleLoc EXCEPT !.op = "cleanupOldLocations"], Ok)]
  /\ UNCHANGED <<OrderVars, now, partnerInfo, index>>

\* LocationController.cleanupOldLocations, lines 161-167, with
\* LocationService.cleanupOldLocations, lines 413-427.  A value that is no
\* number compares false with 7 (line 415) and goes on to the repository.
cleanupOldLocations(p, body) ==
  /\ locProcs[p].pc = "idle"
  /\ LET daysOld == DaysOrDefault(body)
         pr == [IdleLoc EXCEPT !.op = "cleanupOldLocations"]
     IN IF daysOld.kind = "number" /\ daysOld.days < 7
          THEN /\ locations' = locations
               /\ locProcs' = [locProcs EXCEPT ![p] =
                                 LocDone(p, pr, Err("TooRecent"))]
          ELSE /\ locations' = RepoCleanupOldLocations(daysOld)
               /\ locProcs' = [locProcs EXCEPT ![p] = LocDone(p, pr, Ok)]
  /\ UNCHANGED <<OrderVars, now, partnerInfo, index>>

\* The ages in days of the samples a sweep can find, and the time of the sweep.
SampleAgeDays == {0, 6, 7, 8, 30, 31}
SweepDay == 40

\* A store of samples of any of these ages, oldest first.
AgedStores ==
  UNION {{s \in [1..n -> SampleAgeDays] : \A i \in 1..(n - 1) : s[i] >= s[i + 1]}
           : n \in 0..MaxSamples}

CleanupInit ==
  /\ orders = <<>>
  /\ otps = {}
  /\ procs = [p \in Procs |-> IdleProc]
  /\ partnerRatings = <<>>
  /\ verified = {}
  /\ attemptCeiling = 0
  /\ now = SweepDay * DaySeconds
  /\ \E s \in AgedStores :
       locations = [i \in DOMAIN s |->
                      [userId |-> "p1", latitude |-> 12971,
                       longitude |-> Longitude,
                       createdAt |-> (SweepDay - s[i]) * DaySeconds]]
  /\ partnerInfo = [u \in LocPartners |->
                      [lastLocationUpdate |-> 0, isOnline |-> FALSE]]
  /\ locProcs = [p \in Procs |-> IdleLoc]
  /\ index = <<>>

\* The cleanup requests of an administrator, one at a time.
CleanupNext ==
  \/ \E b \in CleanupBodies : cleanupOldLocations(1, b)
  \/ locReturn(1)

CleanupSpec == CleanupInit /\ [][CleanupNext]_vars

\* ------------------------------------------------------- partner matching
MaxCandidates == 2

\* The partners the spatial query can return, each with a position, a
\* rating and a number of completed deliveries.
CandidatePool ==
  [partnerId : {"p1", "p2", "p3"}, latitude : {12971, 12980},
   rating : {3, 5}, completedDeliveries : {40}]

\* The contents of the index: up to MaxCandidates partners, in its order.
Indexes ==
  UNION {{s \in [1..n -> CandidatePool] :
            \A i, j \in 1..n : i # j => s[i].partnerId # s[j].partnerId}
           : n \in 0..MaxCandidates}

\* The query of a request: thousandths of a degree and metres.
QueryLatitudes == {-90001, -90000, 12971, 90000, 90001}
QueryLongitudes == {-180001, -180000, 180000, 180001}
QueryRadii == {-1000, 0, 500, 10000, 100000, 100001}

\* locationRepository.findNearbyDeliveryPartners(latitude, longitude,
\* radiusKm): the partners of the index within the radius, in its order.
RepoFindNearby(latitude, longitude, radius) ==
  SelectSeq(index, LAMBDA c :
    calculateDistance(latitude, longitude, c.latitude, Longitude) <= radius)

\* The search without the check of lines 150-152.
findNearbyDeliveryPartners_NoRadiusCheck(p, latitude, longitude, radius) ==
  /\ locProcs[p].pc = "idle"
  /\ LET pr == [IdleLoc EXCEPT !.op = "findNearbyDeliveryPartners",
                               !.latitude = latitude,
                               !.longitude = longitude, !.radius = radius]
     IN locProcs' = [locProcs EXCEPT ![p] =
          IF latitude < -90000 \/ latitude > 90000
            THEN LocDone(p, pr, Err("InvalidLatitude"))
          ELSE IF longitude < -180000 \/ longitude > 180000
            THEN LocDone(p, pr, Err("InvalidLongitude"))
          ELSE [pr EXCEPT !.pc = "find_nearby"]]
  /\ UNCHANGED <<orders, otps, procs, partnerRatings, verified, attemptCeiling,
                 locations, now, partnerInfo, index>>

\* lines 137-152: the checks of the query.
findNearbyDeliveryPartners(p, latitude, longitude, radius) ==
  /\ locProcs[p].pc = "idle"
  /\ LET pr == [IdleLoc EXCEPT !.op = "findNearbyDeliveryPartners",
                               !.latitude = latitude,
                               !.longitude = longitude, !.radius = radius]
     IN locProcs' = [locProcs EXCEPT ![p] =
          IF latitude < -90000 \/ latitude > 90000
            THEN LocDone(p, pr, Err("InvalidLatitude"))
          ELSE IF longitude < -180000 \/ longitude > 180000
            THEN LocDone(p, pr, Err("InvalidLongitude"))
          ELSE IF radius <= 0 \/ radius > 100000
            THEN LocDone(p, pr, Err("InvalidRadius"))
          ELSE [pr EXCEPT !.pc = "find_nearby"]]
  /\ UNCHANGED <<OrderVars, locations, now, partnerInfo, index>>

\* lines 154-160: the index is asked and its answer returned.
findNearbyQuery(p) ==
  /\ locProcs[p].pc = "find_nearby"
  /\ locProcs' = [locProcs EXCEPT ![p] =
       LocReturns(p, locProcs[p],
                  RepoFindNearby(locProcs[p].latitude, locProcs[p].longitude,
                                 locProcs[p].radius))]
  /\ UNCHANGED <<OrderVars, locations, now, partnerInfo, index>>

Max(a, b) == IF a >= b THEN a ELSE b

\* lines 567-601: the partner with its distances and its score, in
\* ten-thousandths, the distances being in metres.  The rating and the number
\* of deliveries that enter the score are the constants of lines 583-584.
Scored(partner, pickup, delivery) ==
  LET pickupDistance == calculateDistance(pickup, Longitude,
                                          partner.latitude, Longitude)
      deliveryDistance == calculateDistance(partner.latitude, Longitude,
                                            delivery, Longitude)
      rating == 0
      totalDeliveries == 0
  IN [partner |-> partner,
      pickupDistance |-> pickupDistance,
      deliveryDistance |-> deliveryDistance,
      score |-> 7 * (pickupDistance + deliveryDistance)
                  + 2000 * (5 - rating)
                  + 10 * Max(0, 100 - totalDeliveries)]

\* Array.prototype.sort with the comparator a.score - b.score (line 607): a
\* stable sort, by insertion of each element after those it does not precede.
RECURSIVE InsertByScore(_, _)
InsertByScore(sorted, x) ==
  IF sorted = <<>> THEN <<x>>
  ELSE IF x.score < Head(sorted).score THEN <<x>> \o sorted
  ELSE <<Head(sorted)>> \o InsertByScore(Tail(sorted), x)

RECURSIVE SortByScore(_)
SortByScore(s) ==
  IF s = <<>> THEN <<>>
  ELSE InsertByScore(SortByScore(SubSeq(s, 1, Len(s) - 1)), s[Len(s)])

\* lines 541-554: the index is asked, without a check of the query.
findOptimalDeliveryPartner(p, pickup, delivery, radius) ==
  /\ locProcs[p].pc = "idle"
  /\ locProcs' = [locProcs EXCEPT ![p] =
       [IdleLoc EXCEPT !.op = "findOptimalDeliveryPartner",
                       !.pc = "rank", !.latitude = pickup,
                       !.longitude = Longitude, !.delivery = delivery,
                       !.radius = radius]]
  /\ UNCHANGED <<OrderVars, locations, now, partnerInfo, index>>

\* The ranking that returns the first partner of the answer, unsorted.
rankPartners_NoSort(p) ==
  /\ locProcs[p].pc = "rank"
  /\ LET nearbyPartners == RepoFindNearby(locProcs[p].latitude,
                                          locProcs[p].longitude,
                                          locProcs[p].radius)
     IN locProcs' = [locProcs EXCEPT ![p] =
          LocReturns(p, locProcs[p],
                     IF Len(nearbyPartners) = 0
                       THEN <<>>
                       ELSE <<Scored(nearbyPartners[1], locProcs[p].latitude,
                                     locProcs[p].delivery)>>)]
  /\ UNCHANGED <<orders, otps, procs, partnerRatings, verified, attemptCeiling,
                 locations, now, partnerInfo, index>>

\* lines 550-609: null for an empty answer, else the first of the partners
\* sorted by score.
rankPartners(p) ==
  /\ locProcs[p].pc = "rank"
  /\ LET nearbyPartners == RepoFindNearby(locProcs[p].latitude,
                                          locProcs[p].longitude,
                                          locProcs[p].radius)
         scoredPartners ==
           [i \in DOMAIN nearbyPartners |->
              Scored(nearbyPartners[i], locProcs[p].latitude,
                     locProcs[p].delivery)]
     IN locProcs' = [locProcs EXCEPT ![p] =
          LocReturns(p, locProcs[p],
                     IF Len(nearbyPartners) = 0
                       THEN <<>>
                       ELSE <<SortByScore(scoredPartners)[1]>>)]
  /\ UNCHANGED <<OrderVars, locations, now, partnerInfo, index>>

\* Where the pickups and the deliveries of the ranked requests are.
PickupLatitudes == {12971, 12975}
DeliveryLatitudes == {12971, 12980}
RankRadii == {500, 10000}

MatchInit ==
  /\ orders = <<>>
  /\ otps = {}
  /\ procs = [p \in Procs |-> IdleProc]
  /\ partnerRatings = <<>>
  /\ verified = {}
  /\ attemptCeiling = 0
  /\ locations = <<>>
  /\ now = 0
  /\ partnerInfo = [u \in LocPartners |->
                      [lastLocationUpdate |-> 0, isOnline |-> FALSE]]
  /\ locProcs = [p \in Procs |-> IdleLoc]
  /\ index \in Indexes

\* The searches for partners near a point, one at a time.
NearbyNext ==
  \/ \E la \in QueryLatitudes, lo \in QueryLongitudes, r \in QueryRadii :
       findNearbyDeliveryPartners(1, la, lo, r)
  \/ findNearbyQuery(1)
  \/ locReturn(1)

NearbySpec == MatchInit /\ [][NearbyNext]_vars

\* The searches for the best partner of a delivery, one at a time.
RankNext ==
  \/ \E pk \in PickupLatitudes, d \in DeliveryLatitudes, r \in RankRadii :
       findOptimalDeliveryPartner(1, pk, d, r)
  \/ rankPartners(1)
  \/ locReturn(1)

RankSpec == MatchInit /\ [][RankNext]_vars

LocInit ==
  /\ locations = <<>>
  /\ now = 0
  /\ partnerInfo = [u \in LocPartners |->
                      [lastLocationUpdate |-> 0, isOnline |-> FALSE]]
  /\ locProcs = [p \in Procs |-> IdleLoc]
  /\ index = <<>>

LocationStep(p) ==
  \/ \E u \in LocSubjects, l \in Latitudes, o \in OnlineFlags :
       updateLocation(p, u, l, o)
  \/ updateUserLocation(p)
  \/ updateLastLocationUpdate(p)
  \/ updateDeliveryPartnerOnlineStatus(p)
  \/ locReturn(p)

\* The location updates of one partner device, one at a time.
LocationNext == LocationStep(1) \/ Tick

\* The location updates of one partner device while the lookup of the last
\* sample can fail.
LookupFailNext ==
  \/ LocationStep(1)
  \/ Tick
  \/ \E u \in LocSubjects, l \in Latitudes, o \in OnlineFlags :
       updateLocationLookupFails(1, u, l, o)

\* ------------------------------------------------------------------ pricing
\* Amounts are in ten-thousandths of a currency unit, weights in tenths of a
\* kilogram, distances in metres.
MaxItems == 2

\* An item with its weight, or without one.
ItemKinds ==
  {[hasWeight |-> FALSE, weight |-> 0], [hasWeight |-> TRUE, weight |-> 5],
   [hasWeight |-> TRUE, weight |-> 25]}
ItemLists == UNION {[1..n -> ItemKinds] : n \in 0..MaxItems}

\* orderData.deliveryType || DeliveryType.STANDARD (line 57).
DeliveryTypes == {"standard", "express", "same_day", "scheduled"}

\* Where the pickup and the delivery addresses of a priced order are.
AddressLatitudes == {12971, 12980, 13100}

\* line 481: items.reduce((sum, item) => sum + (item.weight || 0), 0)
RECURSIVE totalWeight(_)
totalWeight(items) ==
  IF items = <<>> THEN 0
  ELSE totalWeight(SubSeq(items, 1, Len(items) - 1))
         + (IF items[Len(items)].hasWeight THEN items[Len(items)].weight ELSE 0)

\* The charge that is the same for every delivery type.
deliveryCharge_Flat(deliveryType) == 250000

\* lines 489-502
deliveryCharge(deliveryType) ==
  CASE deliveryType = "express" -> 1000000
    [] deliveryType = "same_day" -> 2000000
    [] deliveryType = "scheduled" -> 500000
    [] OTHER -> 250000

\* lines 472-517.  calculateDistance of utils/helpers is the great-circle
\* distance of the two addresses.
calculatePricing(items, pickup, delivery, deliveryType) ==
  LET distance == calculateDistance(pickup, Longitude, delivery, Longitude)
      basePrice == 500000
      distanceCharge == distance * 100
      weightCharge == totalWeight(items) * 5000
      subtotal == basePrice + distanceCharge + weightCharge
                    + deliveryCharge(deliveryType)
      taxAmount == (subtotal * 18) \div 100
  IN [basePrice |-> basePrice, distanceCharge |-> distanceCharge,
      weightCharge |-> weightCharge,
      deliveryCharge |-> deliveryCharge(deliveryType),
      taxAmount |-> taxAmount, discount |-> 0,
      totalAmount |-> subtotal + taxAmount]

NoPricing ==
  [basePrice |-> 0, distanceCharge |-> 0, weightCharge |-> 0,
   deliveryCharge |-> 0, taxAmount |-> 0, discount |-> 0, totalAmount |-> 0]

\* The call of lines 53-58 for the order data of a request.
price(p) ==
  /\ procs[p].pc = "price"
  /\ procs' = [procs EXCEPT ![p] =
       [procs[p] EXCEPT !.pc = "priced",
          !.price.pricing = calculatePricing(procs[p].price.items,
                                             procs[p].price.pickup,
                                             procs[p].price.delivery,
                                             procs[p].price.deliveryType)]]
  /\ UNCHANGED <<orders, otps, partnerRatings, verified, attemptCeiling, locvars>>

\* The same order data is priced again.
priceAgain(p) ==
  /\ procs[p].pc = "priced"
  /\ procs' = [procs EXCEPT ![p] =
       [procs[p] EXCEPT !.pc = "price", !.price.pricing = NoPricing]]
  /\ UNCHANGED <<orders, otps, partnerRatings, verified, attemptCeiling, locvars>>

\* A createOrder request with its order data, about to be priced.
PriceInit ==
  /\ orders = <<>>
  /\ otps = {}
  /\ \E items \in ItemLists, pk \in AddressLatitudes, d \in AddressLatitudes,
        t \in DeliveryTypes :
       procs = [p \in Procs |->
                  IF p = 1
                    THEN [IdleProc EXCEPT !.op = "createOrder", !.pc = "price",
                            !.price = [items |-> items, pickup |-> pk,
                                       delivery |-> d, deliveryType |-> t,
                                       pricing |-> NoPricing]]
                    ELSE IdleProc]
  /\ partnerRatings = <<>>
  /\ verified = {}
  /\ attemptCeiling = 0
  /\ LocInit

PriceNext == price(1) \/ priceAgain(1)

PriceSpec == PriceInit /\ [][PriceNext]_vars

Init ==
  /\ orders = <<>>
  /\ otps = {}
  /\ procs = [p \in Procs |-> IdleProc]
  /\ partnerRatings = <<>>
  /\ verified = {}
  /\ attemptCeiling = 0
  /\ LocInit

\* One step of request slot p.
\* The partners that call the verify operations: those that can hold an
\* assignment.  The handlers only compare the caller with the order's
\* partner, so any other caller is answered as a courier that does not hold
\* the order is.
Couriers == {d \in PartnerRefs : d \in Users /\ isActive[d]}

Step(p) ==
  \/ \E c \in CustomerRefs : createOrder(p, c)
  \/ createPickupOTP(p)
  \/ createDeliveryOTP(p)
  \/ \E o \in OrderIds, d \in PartnerRefs : assignDeliveryPartner(p, o, d)
  \/ assignWrite(p)
  \/ \E o \in OrderIds, s \in OrderStatus : updateOrderStatus(p, o, s)
  \/ updateWrite(p)
  \/ \E o \in OrderIds : cancelOrder(p, o)
  \/ cancelWrite(p)
  \/ cancelRefund(p)
  \/ \E o \in OrderIds, c \in Codes, d \in Couriers : verifyPickupOTP(p, o, c, d)
  \/ \E o \in OrderIds, c \in Codes, d \in Couriers : verifyDeliveryOTP(p, o, c, d)
  \/ verifyOTP(p)
  \/ verifyUpdate(p)
  \/ return(p)

Environment == \E o \in OrderIds : completePayment(o)

\* One request at a time: every handler runs from its call to its return
\* before the next one starts.
Next == Step(1) \/ Environment

Spec == Init /\ [][Next]_vars

\* Concurrent requests: the handlers interleave at their awaits.
ConcNext == (\E p \in Procs : Step(p)) \/ Environment

ConcSpec == Init /\ [][ConcNext]_vars

\* ------------------------------------------ one customer with two orders
\* The state in which customer c1 has placed a first order, whose two codes
\* are issued, and the createOrder request for a second order has persisted
\* the order (line 79) and is about to issue its codes (line 95).
NewOrder ==
  [userId |-> "c1", status |-> "PENDING",
   deliveryPartnerId |-> NoPartner, paymentStatus |-> "PENDING",
   confirmedAt |-> FALSE, actualPickupTime |-> FALSE,
   actualDeliveryTime |-> FALSE, cancelledAt |-> FALSE,
   rating |-> NoRating]

TwoOrderInit ==
  /\ orders = <<NewOrder, NewOrder>>
  /\ otps = {[subject |-> "c1", type |-> t, order |-> 1,
              code |-> 111111, consumed |-> FALSE, expired |-> FALSE,
              attempts |-> 0] :
                t \in {"PICKUP", "DELIVERY"}}
  /\ procs = [p \in Procs |->
               IF p = 1
                 THEN [IdleProc EXCEPT !.op = "createOrder", !.user = "c1",
                                       !.pc = "otp_pickup", !.oid = 2]
                 ELSE IdleProc]
  /\ partnerRatings = <<>>
  /\ verified = {}
  /\ attemptCeiling = 0
  /\ LocInit

\* The requests that take the two orders to their pickup and delivery, one
\* at a time.
TwoOrderNext ==
  \/ createPickupOTP(1)
  \/ createDeliveryOTP(1)
  \/ \E o \in DOMAIN orders, d \in PartnerRefs : assignDeliveryPartner(1, o, d)
  \/ assignWrite(1)
  \/ \E o \in DOMAIN orders, s \in OrderStatus : updateOrderStatus(1, o, s)
  \/ updateWrite(1)
  \/ \E o \in DOMAIN orders, c \in Codes, d \in PartnerRefs :
       verifyPickupOTP(1, o, c, d)
  \/ \E o \in DOMAIN orders, c \in Codes, d \in PartnerRefs :
       verifyDeliveryOTP(1, o, c, d)
  \/ verifyOTP(1)
  \/ verifyUpdate(1)
  \/ return(1)

TwoOrderSpec == TwoOrderInit /\ [][TwoOrderNext]_vars

\* --------------------------------------------------- delivery and rating
\* The requests that take an order to any of its statuses, and the ratings
\* of it, one at a time.  rateOrder writes no field another handler reads.
RateNext ==
  \/ \E c \in CustomerRefs : createOrder(1, c)
  \/ createPickupOTP(1)
  \/ createDeliveryOTP(1)
  \/ \E o \in OrderIds, d \in PartnerRefs : assignDeliveryPartner(1, o, d)
  \/ assignWrite(1)
  \/ \E o \in OrderIds, s \in OrderStatus : updateOrderStatus(1, o, s)
  \/ updateWrite(1)
  \/ \E o \in OrderIds, r \in Ratings, t \in RatingTypes : rateOrder(1, o, r, t)
  \/ rateWrite(1)
  \/ ratePartner(1)
  \/ return(1)

RateSpec == Init /\ [][RateNext]_vars

\* ------------------------------------------------------- the OTP ledger
\* One step of request slot p of the auth and partner services.
LedgerStep(p) ==
  \/ \E u \in CustomerRefs, t \in AuthTypes : requestOTPVerification(p, u, t)
  \/ \E u \in CustomerRefs, t \in AuthTypes, c \in Codes : AuthVerifyOTP(p, u, t, c)
  \/ markVerified(p)
  \/ \E e \in PartnerEmails : requestLoginOtp(p, e)
  \/ \E e \in PartnerEmails, c \in Codes : verifyLoginOtp(p, e, c)
  \/ updateLastLogin(p)
  \/ return(p)

\* Concurrent issue and verify requests, and the passing of time.
LedgerNext == (\E p \in Procs : LedgerStep(p)) \/ (\E r \in otps : expire(r))

LedgerSpec == Init /\ [][LedgerNext]_vars

LocationSpec == Init /\ [][LocationNext]_vars

LookupFailSpec == Init /\ [][LookupFailNext]_vars

\* One step of a request among the location updates that one partner device
\* sends concurrently, none of them carrying an online flag.
ConcLocationStep(p) ==
  \/ \E l \in Latitudes : updateLocation(p, "p1", l, "absent")
  \/ updateUserLocation(p)
  \/ updateLastLocationUpdate(p)
  \/ locReturn(p)

ConcLocationNext == (\E p \in Procs : ConcLocationStep(p)) \/ Tick

ConcLocationSpec == Init /\ [][ConcLocationNext]_vars

\* The issue and verify requests of the auth service with a notification
\* channel that can fail.
NotifyStep(p) ==
  \/ \E u \in CustomerRefs, t \in AuthTypes : requestOTPVerification(p, u, t)
  \/ \E u \in CustomerRefs, t \in AuthTypes :
       requestOTPVerificationSendFails(p, u, t)
  \/ \E u \in CustomerRefs : requestPasswordReset(p, u)
  \/ \E u \in CustomerRefs, t \in AuthTypes, c \in Codes : AuthVerifyOTP(p, u, t, c)
  \/ markVerified(p)
  \/ return(p)

NotifyNext == (\E p \in Procs : NotifyStep(p)) \/ (\E r \in otps : expire(r))

NotifySpec == Init /\ [][NotifyNext]_vars

\* ------------------------------------------------------- password reset
\* The requests that issue a code for a user's e-mail address come in on
\* slot 1, whose last request stays visible until the next one; the requests
\* that submit a code (e-mail verification, password reset) come in on slot 2.
ResetNext ==
  \/ \E u \in CustomerRefs, t \in AuthTypes : requestOTPVerification(1, u, t)
  \/ \E u \in CustomerRefs : requestPasswordReset(1, u)
  \/ return(1)
  \/ \E u \in CustomerRefs, t \in AuthTypes, c \in Codes :
       AuthVerifyOTP(2, u, t, c)
  \/ markVerified(2)
  \/ \E u \in CustomerRefs, c \in Codes : resetPassword(2, u, c)
  \/ resetWrite(2)

ResetSpec == Init /\ [][ResetNext]_vars

\* ---------------------------------------------------------- registration
\* Registrations, one at a time, with an OTP store and a mail channel that
\* can fail.
RegisterNext ==
  \/ \E e \in RegisterEmails, ph \in RegisterPhones : register(1, e, ph)
  \/ registerCreate(1)
  \/ registerEmailOTP(1)
  \/ registerPhoneOTP(1)
  \/ registerSend(1)
  \/ registerVerificationFails(1)
  \/ return(1)

RegisterSpec == Init /\ [][RegisterNext]_vars

\* ------------------------------------------------ pickup with expiring codes
\* The requests that take an order to its pickup, one at a time, while the
\* expiry times of the codes pass.
PickupNext ==
  \/ \E c \in CustomerRefs : createOrder(1, c)
  \/ createPickupOTP(1)
  \/ createDeliveryOTP(1)
  \/ \E o \in OrderIds, d \in PartnerRefs : assignDeliveryPartner(1, o, d)
  \/ assignWrite(1)
  \/ \E o \in OrderIds, c \in Codes, d \in PartnerRefs : verifyPickupOTP(1, o, c, d)
  \/ verifyOTP(1)
  \/ verifyUpdate(1)
  \/ updateWrite(1)
  \/ return(1)
  \/ \E r \in otps : expire(r)

PickupSpec == Init /\ [][PickupNext]_vars

\* ------------------------------------------------ requests that are retried
\* The requests of one caller, one at a time, with an OTP store that can
\* reject a write; the caller sends a failed createOrder again.
RetryNext ==
  \/ \E c \in CustomerRefs : createOrder(1, c)
  \/ createPickupOTP(1)
  \/ createPickupOTPFails(1)
  \/ createDeliveryOTP(1)
  \/ createDeliveryOTPFails(1)
  \/ \E c \in CustomerRefs : createOrderRetry(1, c)
  \/ \E o \in OrderIds, d \in PartnerRefs : assignDeliveryPartner(1, o, d)
  \/ assignWrite(1)
  \/ \E o \in OrderIds, c \in Codes, d \in PartnerRefs : verifyPickupOTP(1, o, c, d)
  \/ verifyOTP(1)
  \/ verifyUpdate(1)
  \/ updateWrite(1)
  \/ \E o \in OrderIds : cancelOrder(1, o)
  \/ cancelWrite(1)
  \/ return(1)

RetrySpec == Init /\ [][RetryNext]_vars

\* ------------------------------------------- pickup with an attempt ceiling
\* The service configured with a ceiling of MaxAttempts wrong codes per record.
AttemptInit ==
  /\ orders = <<>>
  /\ otps = {}
  /\ procs = [p \in Procs |-> IdleProc]
  /\ partnerRatings = <<>>
  /\ verified = {}
  /\ attemptCeiling = MaxAttempts
  /\ LocInit

\* The requests that take an order to its pickup and on, one at a time.
AttemptNext ==
  \/ \E c \in CustomerRefs : createOrder(1, c)
  \/ createPickupOTP(1)
  \/ createDeliveryOTP(1)
  \/ \E o \in OrderIds, d \in PartnerRefs : assignDeliveryPartner(1, o, d)
  \/ assignWrite(1)
  \/ \E o \in OrderIds, s \in OrderStatus : updateOrderStatus(1, o, s)
  \/ \E o \in OrderIds, c \in Codes, d \in PartnerRefs : verifyPickupOTP(1, o, c, d)
  \/ verifyOTP(1)
  \/ verifyUpdate(1)
  \/ updateWrite(1)
  \/ return(1)

AttemptSpec == AttemptInit /\ [][AttemptNext]_vars

\* ================================================================ properties
\* A status from which the table allows no transition.
Terminal == {s \in OrderStatus : validTransitions[s] = {}}

\* The positions at which a handler is about to write the order's status.
WritePcs == {"assign_write", "update_write", "cancel_write"}

\* C1: every change of an order's persisted status goes from a status s to an
\* allowed target of s in the transition table, whatever calls are made;
\* DELIVERED, CANCELLED and RETURNED are never left.
C1_StatusFollowsTable ==
  [][\A o \in DOMAIN orders :
       orders'[o].status # orders[o].status
         => orders'[o].status \in validTransitions[orders[o].status]]_vars

\* C2: updateOrderStatus(o, s) with s not an allowed target of o's current
\* status returns at once with InvalidTransition naming the current and the
\* requested status, and the order collection (status, milestone timestamps,
\* payment status) is what it was.
C2_IllegalUpdateRejected ==
  [][(procs[1].pc = "idle" /\ procs'[1].op = "updateOrderStatus")
       => \A o \in DOMAIN orders, s \in OrderStatus :
            s \notin validTransitions[orders[o].status]
              => \/ /\ procs'[1].pc = "done"
                    /\ procs'[1].res = InvalidTransition(orders[o].status, s)
                    /\ orders' = orders
                 \/ ~updateOrderStatus(1, o, s)]_vars

\* An updateOrderStatus call has returned InvalidTransition naming the status
\* the order has.
C2_Witness ==
  /\ procs[1].pc = "done"
  /\ procs[1].op = "updateOrderStatus"
  /\ procs[1].res.kind = "InvalidTransition"
  /\ procs[1].res.to \notin validTransitions[procs[1].res.from]
  /\ \E o \in DOMAIN orders : orders[o].status = procs[1].res.from

\* C3: of the transition attempts that read the same status of an order, at
\* most one succeeds: an attempt whose write comes after the status has
\* changed since it read it has no effect and does not succeed.
C3_StaleWriteRejected ==
  [][\A p \in Procs :
       ( /\ procs[p].pc \in WritePcs
         /\ procs'[p] # procs[p]
         /\ Exists(procs[p].oid)
         /\ Order(procs[p].oid).status # procs[p].read )
         => (orders' = orders /\ procs'[p].res.kind # "OK")]_vars

\* C4: cancelOrder makes the status CANCELLED if and only if the order's
\* status is non-terminal; on a DELIVERED, CANCELLED or RETURNED order it
\* fails and leaves status, payment status and cancellation fields as they were.
C4_CancelOnlyNonTerminal ==
  [][(procs[1].pc = "cancel_write" /\ procs'[1] # procs[1])
       => IF Order(procs[1].oid).status \in Terminal
            THEN orders' = orders /\ procs'[1].res.kind # "OK"
            ELSE orders'[procs[1].oid].status = "CANCELLED"]_vars

\* C5: when createOrder has returned successfully, the new order (the last
\* one created) is persisted PENDING with no partner, and the active OTP
\* records scoped to it are exactly two, one PICKUP and one DELIVERY, both with
\* the order's customer as subject.
C5_CreateOrderPost ==
  (procs[1].pc = "done" /\ procs[1].op = "createOrder" /\ procs[1].res = Ok)
    => LET o == Len(orders)
           active == {r \in otps : r.order = o /\ ~r.consumed}
       IN /\ Exists(o)
          /\ Order(o).status = "PENDING"
          /\ Order(o).deliveryPartnerId = NoPartner
          /\ Order(o).userId \in Users
          /\ Cardinality(active) = 2
          /\ {r.type : r \in active} = {"PICKUP", "DELIVERY"}
          /\ \A r \in active : r.subject = Order(o).userId

\* A createOrder call has returned successfully and its order is there.
C5_Witness ==
  /\ procs[1].pc = "done"
  /\ procs[1].op = "createOrder"
  /\ procs[1].res = Ok
  /\ Exists(Len(orders))

\* C6: createOrder with a customer reference that resolves to no customer
\* returns CustomerNotFound, and neither an order nor an OTP record is created.
C6_UnknownCustomerRejected ==
  [][(procs[1].pc = "idle" /\ procs'[1].op = "createOrder")
       => \A c \in CustomerRefs :
            (createOrder(1, c) /\ c \notin Users)
              => /\ procs'[1].pc = "done"
                 /\ procs'[1].res = Err("CustomerNotFound")
                 /\ orders' = orders
                 /\ otps' = otps]_vars

\* A createOrder call for an unknown customer has returned CustomerNotFound.
C6_Witness ==
  /\ procs[1].pc = "done"
  /\ procs[1].op = "createOrder"
  /\ procs[1].res.kind = "CustomerNotFound"

\* C7: assignDeliveryPartner(o, P) on a PENDING order without a partner and
\* with P active goes through, sets the status to CONFIRMED and records P;
\* once a partner is recorded every assignDeliveryPartner(o, Q) returns
\* AlreadyAssigned and the recorded partner never changes.
C7_AssignOnce ==
  [][/\ (procs[1].pc = "idle" /\ procs'[1].op = "assignDeliveryPartner")
          => \A o \in DOMAIN orders, d \in PartnerRefs :
               assignDeliveryPartner(1, o, d)
                 => IF orders[o].deliveryPartnerId # NoPartner
                      THEN /\ procs'[1].pc = "done"
                           /\ procs'[1].res = Err("AlreadyAssigned")
                      ELSE (/\ orders[o].status = "PENDING"
                            /\ d \in Users
                            /\ isActive[d]) => procs'[1].pc # "done"
     /\ (procs[1].pc = "assign_write" /\ procs'[1] # procs[1])
          => /\ orders'[procs[1].oid].status = "CONFIRMED"
             /\ orders'[procs[1].oid].deliveryPartnerId = procs[1].user
             /\ procs'[1].res = Ok
     /\ \A o \in DOMAIN orders :
          orders[o].deliveryPartnerId # NoPartner
            => orders'[o].deliveryPartnerId = orders[o].deliveryPartnerId]_vars

\* An assignDeliveryPartner call on an order that another partner holds has
\* returned AlreadyAssigned.
C7_Witness ==
  /\ procs[1].pc = "done"
  /\ procs[1].op = "assignDeliveryPartner"
  /\ procs[1].res.kind = "AlreadyAssigned"
  /\ \E o \in DOMAIN orders :
       Order(o).status = "CONFIRMED" /\ Order(o).deliveryPartnerId # NoPartner

\* C8, as stated: assignDeliveryPartner fails and leaves the order unchanged
\* when the order is missing, with InvalidState when the order is not PENDING,
\* and with PartnerIneligible when the partner is missing or inactive.
C8_AsStated ==
  [][(procs[1].pc = "idle" /\ procs'[1].op = "assignDeliveryPartner") =>
     \A o \in OrderIds, d \in PartnerRefs :
       assignDeliveryPartner(1, o, d)
         => LET failsWith(K) == /\ procs'[1].pc = "done"
                                /\ procs'[1].res.kind \in K
                                /\ orders' = orders
            IN IF ~Exists(o) THEN failsWith({"OrderNotFound"})
               ELSE IF Order(o).status # "PENDING"
                 THEN failsWith({"InvalidState"})
               ELSE IF d \notin Users \/ ~isActive[d]
                 THEN failsWith({"PartnerIneligible"})
               ELSE TRUE]_vars

\* C8, amended: assignDeliveryPartner fails and leaves the order unchanged
\* when the order is missing (OrderNotFound), when it has a partner
\* (AlreadyAssigned), when it has none and is not PENDING (InvalidState), when
\* the partner is missing (PartnerNotFound) and when the partner is inactive
\* (PartnerIneligible); the call has then returned, so nothing moves the order
\* to CONFIRMED on its behalf.
C8_AssignRejected ==
  [][(procs[1].pc = "idle" /\ procs'[1].op = "assignDeliveryPartner") =>
     \A o \in OrderIds, d \in PartnerRefs :
       assignDeliveryPartner(1, o, d)
         => LET failsWith(k) == /\ procs'[1].pc = "done"
                                /\ procs'[1].res = Err(k)
                                /\ orders' = orders
            IN IF ~Exists(o) THEN failsWith("OrderNotFound")
               ELSE IF Order(o).deliveryPartnerId # NoPartner
                 THEN failsWith("AlreadyAssigned")
               ELSE IF Order(o).status # "PENDING"
                 THEN failsWith("InvalidState")
               ELSE IF d \notin Users THEN failsWith("PartnerNotFound")
               ELSE IF ~isActive[d] THEN failsWith("PartnerIneligible")
               ELSE TRUE]_vars

\* An assignDeliveryPartner call naming a partner that does not exist has
\* returned PartnerNotFound on a PENDING order.
C8_Witness ==
  /\ procs[1].pc = "done"
  /\ procs[1].op = "assignDeliveryPartner"
  /\ procs[1].res.kind = "PartnerNotFound"
  /\ \E o \in DOMAIN orders : Order(o).status = "PENDING"

\* C9: a successful updateOrderStatus to PICKED_UP leaves the order with
\* actualPickupTime set; a successful one to DELIVERED leaves it with
\* actualDeliveryTime set and paymentStatus COMPLETED; hence no order is
\* DELIVERED with a paymentStatus other than COMPLETED.
C9_DeliveredIsPaid ==
  [][/\ (procs[1].pc = "update_write" /\ procs'[1].pc = "done"
                                       /\ procs'[1].res = Ok)
          => LET o == procs[1].oid
             IN /\ procs[1].newStatus = "PICKED_UP"
                     => orders'[o].actualPickupTime
                /\ procs[1].newStatus = "DELIVERED"
                     => /\ orders'[o].actualDeliveryTime
                        /\ orders'[o].paymentStatus = "COMPLETED"
     /\ \A o \in DOMAIN orders' :
          orders'[o].status = "DELIVERED"
            => orders'[o].paymentStatus = "COMPLETED"]_vars

\* The statuses that have a milestone timestamp, and the timestamp of each.
Milestones == {"CONFIRMED", "PICKED_UP", "DELIVERED", "CANCELLED"}

Stamp(order, m) ==
  CASE m = "CONFIRMED" -> order.confirmedAt
    [] m = "PICKED_UP" -> order.actualPickupTime
    [] m = "DELIVERED" -> order.actualDeliveryTime
    [] m = "CANCELLED" -> order.cancelledAt

\* C10: a milestone timestamp is set if and only if the order has passed
\* through the corresponding status: a new order has none set, and after
\* every step a timestamp is set exactly when it was set before the step or
\* the order is now in that status.
C10_StampsFollowStatus ==
  [][\A o \in DOMAIN orders', m \in Milestones :
       Stamp(orders'[o], m)
         <=> \/ orders'[o].status = m
             \/ (o \in DOMAIN orders /\ Stamp(orders[o], m))]_vars

\* The operations that check a one-time code against an order.
VerifyOps == {"verifyPickupOTP", "verifyDeliveryOTP"}

\* The status an order must have for the verify operation to go ahead.
VerifyPre(op) == IF op = "verifyPickupOTP" THEN "CONFIRMED" ELSE "OUT_FOR_DELIVERY"

\* C11: verifyPickupOTP and verifyDeliveryOTP called by a partner who is not
\* the order's assigned partner (an order without a partner included) return
\* at once with Unauthorized, leaving the orders and the OTP records as they
\* were (a call with any other outcome was made by the assigned partner);
\* and a verify call that writes the OTP records or an order's status was
\* made by the partner the order is assigned to.
C11_NonAssignedPartnerRejected ==
  [][/\ (procs[1].pc = "idle" /\ procs'[1].op \in VerifyOps)
          => \/ /\ procs'[1].pc = "done"
                /\ procs'[1].res = Err("Unauthorized")
                /\ orders' = orders
                /\ otps' = otps
             \/ \A o \in DOMAIN orders, c \in Codes, d \in PartnerRefs :
                  \/ orders[o].deliveryPartnerId = d
                  \/ ~(IF procs'[1].op = "verifyPickupOTP"
                         THEN verifyPickupOTP(1, o, c, d)
                         ELSE verifyDeliveryOTP(1, o, c, d))
     /\ ( /\ procs[1].op \in VerifyOps
          /\ procs[1].pc \in {"verify_otp", "update_write"}
          /\ <<orders, otps>>' # <<orders, otps>> )
          => Order(procs[1].oid).deliveryPartnerId = procs[1].user]_vars

\* A verify call on an order assigned to another partner, or to none, has
\* returned Unauthorized.
C11_Witness ==
  /\ procs[1].pc = "done"
  /\ procs[1].op \in VerifyOps
  /\ procs[1].res = Err("Unauthorized")
  /\ \E o \in DOMAIN orders : orders[o].deliveryPartnerId # NoPartner
  /\ \E r \in otps : ~r.consumed

\* C12: a verify call on an order that is not in the status the operation
\* requires (CONFIRMED for pickup, OUT_FOR_DELIVERY for delivery) fails at
\* once, the OTP records and the orders being what they were (a call with
\* any other outcome found the order in the required status).
C12_WrongStatusLeavesLedger ==
  [][(procs[1].pc = "idle" /\ procs'[1].op \in VerifyOps)
       => \/ /\ procs'[1].pc = "done"
             /\ procs'[1].res \in {Err("Unauthorized"), Err("NotReady")}
             /\ orders' = orders
             /\ otps' = otps
          \/ \A o \in DOMAIN orders, c \in Codes, d \in PartnerRefs :
               ( \/ verifyPickupOTP(1, o, c, d)
                 \/ verifyDeliveryOTP(1, o, c, d) )
                 => orders[o].status = VerifyPre(procs'[1].op)]_vars

\* The assigned partner's verify call has been turned down for the order's
\* status while the order's codes were unconsumed.
C12_Witness ==
  /\ procs[1].pc = "done"
  /\ procs[1].op \in VerifyOps
  /\ procs[1].res = Err("NotReady")
  /\ \E r \in otps : ~r.consumed

\* The reasons with which the OTP records turn a code down.
OtpReasons ==
  {"OTPNotFound", "OTPAlreadyConsumed", "OTPMismatch", "OTPExpired",
   "OTPExhausted"}

\* C13: in a verify call by the assigned partner on an order in the required
\* status, a code the OTP records turn down ends the call with their reason
\* and the order as it was; a code they accept takes the order one step, from
\* CONFIRMED to PICKED_UP with the actual pickup time set, or from
\* OUT_FOR_DELIVERY to DELIVERED with the actual delivery time set.
C13_VerifyAdvances ==
  [][procs[1].op \in VerifyOps
       => /\ (procs[1].pc = "verify_otp" /\ procs'[1].pc = "done")
               => /\ procs'[1].res.kind \in OtpReasons
                  /\ orders' = orders
                  /\ otps' = otps
          /\ (procs[1].pc = "update_write" /\ procs'[1].pc = "done")
               => /\ procs'[1].res = Ok
                  /\ orders[procs[1].oid].status = VerifyPre(procs[1].op)
                  /\ orders'[procs[1].oid].status = VerifyTarget(procs[1])
                  /\ Stamp(orders'[procs[1].oid], VerifyTarget(procs[1]))]_vars

\* C14: a code is checked against the records of the order the call names:
\* a verify call whose code is accepted consumes a record issued for its own
\* order, never one issued for another order of the same customer; and
\* issuing the codes of a new order leaves the records of the customer's
\* other orders in place.
C14_CodeScopedToOrder ==
  [][/\ (procs[1].pc = "verify_otp" /\ procs'[1].pc = "verify_update")
          => \A r \in otps \ otps' : r.order = procs[1].oid
     /\ (procs[1].op = "createOrder" /\ otps' # otps)
          => \A r \in otps : r.order # procs[1].oid => r \in otps']_vars

\* C15: cancelOrder on an order whose payment status it read as COMPLETED
\* makes the status CANCELLED and then the payment status REFUNDED, and
\* returns successfully; when it read any other payment status it makes the
\* status CANCELLED and writes no payment status.
C15_CancelRefunds ==
  [][(procs'[1].op = "cancelOrder" /\ procs'[1] # procs[1])
       => /\ procs'[1].pc = "cancel_write"
               => /\ procs'[1].refund
                       = (orders[procs'[1].oid].paymentStatus = "COMPLETED")
                  /\ orders' = orders
          /\ procs[1].pc = "cancel_write"
               => /\ orders'[procs[1].oid].status = "CANCELLED"
                  /\ orders'[procs[1].oid].paymentStatus
                       = orders[procs[1].oid].paymentStatus
                  /\ IF procs[1].refund
                       THEN procs'[1].pc = "cancel_refund"
                       ELSE procs'[1].pc = "done" /\ procs'[1].res = Ok
          /\ procs[1].pc = "cancel_refund"
               => /\ procs[1].refund
                  /\ orders'[procs[1].oid].status = "CANCELLED"
                  /\ orders'[procs[1].oid].paymentStatus = "REFUNDED"
                  /\ procs'[1].pc = "done" /\ procs'[1].res = Ok]_vars

\* cancelOrder has cancelled an order it read as CONFIRMED and paid, and is
\* about to write the refund.
C15_Witness ==
  /\ procs[1].op = "cancelOrder"
  /\ procs[1].pc = "cancel_refund"
  /\ procs[1].read = "CONFIRMED"
  /\ Order(procs[1].oid).status = "CANCELLED"
  /\ Order(procs[1].oid).paymentStatus = "COMPLETED"

\* C16: in every reachable state, a request abandoned between two of its
\* writes included, an order whose payment status is REFUNDED has the status
\* CANCELLED.
C16_RefundedIsCancelled ==
  \A o \in DOMAIN orders :
    orders[o].paymentStatus = "REFUNDED" => orders[o].status = "CANCELLED"

\* C17: a rateOrder call goes ahead only on a DELIVERED order; on any other
\* order it returns an error at once, having stored no rating and updated no
\* partner's rating.  The call stores the rating; when the customer rates
\* and the order has a partner, it then applies exactly one rating update,
\* to that partner and with that rating, and otherwise none; no step of it
\* changes an order's status.
C17_RateOnlyDelivered ==
  [][(procs'[1].op = "rateOrder" /\ procs'[1] # procs[1])
       => /\ \A o \in DOMAIN orders : orders'[o].status = orders[o].status
          /\ procs[1].pc = "idle"
               => /\ orders' = orders
                  /\ partnerRatings' = partnerRatings
                  /\ IF procs'[1].pc = "done"
                       THEN procs'[1].res.kind \in {"OrderNotFound", "NotDelivered"}
                       ELSE /\ procs'[1].pc = "rate_write"
                            /\ orders[procs'[1].oid].status = "DELIVERED"
          /\ procs[1].pc = "rate_write"
               => /\ orders'[procs[1].oid].rating[procs[1].ratingType]
                       = procs[1].rating
                  /\ partnerRatings' = partnerRatings
                  /\ IF /\ procs[1].ratingType = "customer"
                        /\ orders[procs[1].oid].deliveryPartnerId # NoPartner
                       THEN procs'[1].pc = "rate_partner"
                       ELSE procs'[1].pc = "done" /\ procs'[1].res = Ok
          /\ procs[1].pc = "rate_partner"
               => /\ orders[procs[1].oid].rating["customer"] = procs[1].rating
                  /\ orders' = orders
                  /\ partnerRatings'
                       = Append(partnerRatings,
                                [partner |-> orders[procs[1].oid].deliveryPartnerId,
                                 rating |-> procs[1].rating])
                  /\ procs'[1].pc = "done" /\ procs'[1].res = Ok]_vars

\* A customer's rating of a delivered order is stored and has reached the
\* order's partner, and a rateOrder call has been turned down for the
\* order's status before.
C17_Witness ==
  /\ procs[1].pc = "done"
  /\ procs[1].op = "rateOrder"
  /\ procs[1].res = Ok
  /\ \E o \in DOMAIN orders :
       /\ orders[o].status = "DELIVERED"
       /\ orders[o].rating["customer"] # 0
       /\ partnerRatings = <<[partner |-> orders[o].deliveryPartnerId,
                               rating |-> orders[o].rating["customer"]]>>

\* The (subject, purpose, order) tuples of the OTP records.
OtpTuples == {<<r.subject, r.type, r.order>> : r \in otps}

\* C18: in every reachable state, whatever the interleaving of the requests
\* that issue codes, each (subject, purpose, order) has at most one OTP
\* record that is neither consumed nor expired.
C18_OneActivePerTuple ==
  \A t \in OtpTuples : Cardinality(OtpLive(t[1], t[2], t[3])) <= 1

\* A code has been issued again for a tuple whose first code is in force:
\* the tuple's one live record carries the second code.
C18_Witness ==
  /\ procs[1].pc = "done"
  /\ procs[1].op = "requestOTPVerification"
  /\ procs[1].res = Ok
  /\ \E r \in OtpLive("c1", "EMAIL_VERIFICATION", NoOrder) : r.code = 222222

\* The records of a tuple.
OtpOf(subject, type, order) == {r \in otps : OtpKey(r, subject, type, order)}

\* C19: an issue leaves its tuple with exactly one record, live and carrying
\* the code just issued, in place of the record of any earlier issue, and
\* leaves the other tuples alone; a verification is accepted only with the
\* code of the tuple's live record, and one with another code, that of an
\* earlier issue included, fails with a mismatch and changes no record.
C19_OnlyLatestCodeVerifies ==
  [][/\ (procs[1].pc = "idle" /\ procs'[1].op = "requestOTPVerification")
          => \A u \in Users, t \in AuthTypes :
               requestOTPVerification(1, u, t)
                 => /\ procs'[1].res = Ok
                    /\ \E c \in Codes :
                         OtpOf(u, t, NoOrder)'
                           = {[subject |-> u, type |-> t, order |-> NoOrder,
                               code |-> c, consumed |-> FALSE,
                               expired |-> FALSE, attempts |-> 0]}
                    /\ otps' \ OtpOf(u, t, NoOrder)' = otps \ OtpOf(u, t, NoOrder)
     /\ (procs[1].pc = "idle" /\ procs'[1].op = "AuthVerifyOTP")
          => \A u \in Users, t \in AuthTypes, c \in Codes :
               AuthVerifyOTP(1, u, t, c)
                 => /\ procs'[1].pc = "mark_verified"
                         => \E r \in OtpLive(u, t, NoOrder) : r.code = c
                    /\ (\E r \in OtpLive(u, t, NoOrder) : r.code # c)
                         => /\ procs'[1].pc = "done"
                            /\ procs'[1].res = Err("OTPMismatch")
                            /\ otps' = otps]_vars

\* After a second issue, whose code is the tuple's live record, a
\* verification with the code of the first issue has failed with a mismatch.
C19_Witness ==
  /\ procs[1].pc = "done"
  /\ procs[1].op = "AuthVerifyOTP"
  /\ procs[1].res = Err("OTPMismatch")
  /\ \E r \in OtpLive("c1", "EMAIL_VERIFICATION", NoOrder) : r.code = 222222

\* The verifications of a code by the auth service and by the partner login.
LedgerVerifyOps == {"AuthVerifyOTP", "verifyLoginOtp"}

\* C20: whatever requests run beside it, a verification that is accepted
\* finds a live record with the submitted code and marks that record, and no
\* other, consumed; a verification on a tuple whose record is consumed fails
\* with OTPAlreadyConsumed and changes no record.
C20_VerifyAtMostOnce ==
  [][(procs[1].pc = "idle" /\ procs'[1].op \in LedgerVerifyOps)
       => \A u \in Users \cup {a \in PartnerAccounts : partnerIsActive[a]},
             c \in Codes :
            ( \/ u \in Users /\ AuthVerifyOTP(1, u, "EMAIL_VERIFICATION", c)
              \/ u \in PartnerAccounts /\ verifyLoginOtp(1, u, c) )
              => /\ procs'[1].pc # "done"
                      => \E r \in OtpLive(u, "EMAIL_VERIFICATION", NoOrder) :
                           /\ r.code = c
                           /\ otps' = (otps \ {r})
                                        \cup {[r EXCEPT !.consumed = TRUE]}
                 /\ ( /\ OtpOf(u, "EMAIL_VERIFICATION", NoOrder) # {}
                      /\ \A r \in OtpOf(u, "EMAIL_VERIFICATION", NoOrder) :
                           r.consumed )
                      => /\ procs'[1].pc = "done"
                         /\ procs'[1].res = Err("OTPAlreadyConsumed")
                         /\ otps' = otps]_vars

\* A partner has logged in with a code, the code's record is consumed by
\* that login, and a further login with a code has failed as already
\* consumed.
C20_Witness ==
  /\ procs[1].pc = "done"
  /\ procs[1].op = "verifyLoginOtp"
  /\ procs[1].res = Err("OTPAlreadyConsumed")
  /\ <<"q1", "login">> \in verified
  /\ \E r \in OtpOf("q1", "EMAIL_VERIFICATION", NoOrder) :
       r.consumed /\ ~r.expired

\* The record r marked consumed.
Consume(r) == (otps \ {r}) \cup {[r EXCEPT !.consumed = TRUE]}

\* C21: a check of a code that finds the subject's unconsumed records past
\* their expiry fails with OTPExpired, whatever the code, marks such a record
\* consumed and leaves the order alone; a code is accepted only on a record
\* that is neither consumed nor expired; and a consumed record stays
\* consumed, so that no later check of a code can succeed on it.
C21_ExpiredIsRejected ==
  [][/\ (procs[1].pc = "verify_otp" /\ procs'[1] # procs[1])
          => LET active == OtpActive(Order(procs[1].oid).userId,
                                     VerifyType(procs[1]))
             IN /\ (active # {} /\ \A r \in active : r.expired)
                     => /\ procs'[1].pc = "done"
                        /\ procs'[1].res = Err("OTPExpired")
                        /\ orders' = orders
                        /\ \E r \in active : otps' = Consume(r)
                /\ procs'[1].pc = "verify_update"
                     => \E r \in active :
                          /\ ~r.expired
                          /\ r.code = procs[1].code
                          /\ otps' = Consume(r)
     /\ \A r \in otps :
          r.consumed => \/ r \in otps'
                        \/ [r EXCEPT !.expired = TRUE] \in otps']_vars

\* A pickup verification has failed as expired on a CONFIRMED order, whose
\* pickup record is thereby consumed.
C21_Witness ==
  /\ procs[1].pc = "done"
  /\ procs[1].op = "verifyPickupOTP"
  /\ procs[1].res = Err("OTPExpired")
  /\ \E o \in DOMAIN orders :
       /\ orders[o].status = "CONFIRMED"
       /\ \E r \in otps : /\ r.order = o /\ r.type = "PICKUP"
                           /\ r.expired /\ r.consumed

\* C22: with an attempt ceiling configured, a check of a code that the
\* subject's unconsumed records do not carry fails with OTPMismatch and adds
\* one to the attempt count of one record; a mismatch is only ever reported
\* in that way.  A record whose count has reached the ceiling is invalidated:
\* it keeps its count, a check that finds only such records fails with
\* OTPExhausted whatever the code, and no code is accepted on one.
C22_MismatchCountsToCeiling ==
  [][/\ (procs[1].pc = "verify_otp" /\ procs'[1] # procs[1])
          => LET active == OtpActive(Order(procs[1].oid).userId,
                                     VerifyType(procs[1]))
                 Counted(r) == otps' = (otps \ {r})
                                 \cup {[r EXCEPT !.attempts = r.attempts + 1]}
             IN /\ (active # {} /\ \A r \in active :
                        r.attempts < attemptCeiling /\ r.code # procs[1].code)
                     => /\ procs'[1].pc = "done"
                        /\ procs'[1].res = Err("OTPMismatch")
                /\ (procs'[1].pc = "done" /\ procs'[1].res = Err("OTPMismatch"))
                     => /\ orders' = orders
                        /\ \E r \in active : /\ r.attempts < attemptCeiling
                                              /\ r.code # procs[1].code
                                              /\ Counted(r)
                /\ (active # {} /\ \A r \in active : r.attempts >= attemptCeiling)
                     => /\ procs'[1].pc = "done"
                        /\ procs'[1].res = Err("OTPExhausted")
                        /\ orders' = orders
                        /\ otps' = otps
                /\ procs'[1].pc = "verify_update"
                     => \E r \in active : /\ r.attempts < attemptCeiling
                                          /\ r.code = procs[1].code
                                          /\ otps' = Consume(r)
     /\ \A r \in otps : r.attempts >= attemptCeiling => r \in otps']_vars

\* After as many wrong codes as the ceiling allows, a pickup verification on
\* the CONFIRMED order has failed as exhausted.
C22_Witness ==
  /\ attemptCeiling = MaxAttempts
  /\ procs[1].pc = "done"
  /\ procs[1].op = "verifyPickupOTP"
  /\ procs[1].res = Err("OTPExhausted")
  /\ \E o \in DOMAIN orders :
       /\ orders[o].status = "CONFIRMED"
       /\ \E r \in otps : /\ r.order = o /\ r.type = "PICKUP"
                           /\ r.attempts = MaxAttempts /\ ~r.consumed

\* The record of a code just issued for the auth tuple of a subject.
Issued(u, t, c) ==
  [subject |-> u, type |-> t, order |-> NoOrder, code |-> c,
   consumed |-> FALSE, expired |-> FALSE, attempts |-> 0]

\* C23: a request whose notification fails after the code was stored, and a
\* password reset request whose e-mail is not awaited, leave the tuple with
\* exactly one record, live and carrying the issued code; and a verification
\* with the code of the tuple's live record is accepted and consumes it.
C23_NotifyFailureKeepsCode ==
  [][/\ (procs[1].pc = "idle" /\ procs'[1].res = Err("NotificationFailed"))
          => \A u \in Users, t \in AuthTypes :
               requestOTPVerificationSendFails(1, u, t)
                 => \E c \in Codes :
                      /\ OtpOf(u, t, NoOrder)' = {Issued(u, t, c)}
                      /\ OtpLive(u, t, NoOrder)' = {Issued(u, t, c)}
     /\ (procs[1].pc = "idle" /\ procs'[1].op = "requestPasswordReset")
          => \A u \in Users :
               requestPasswordReset(1, u)
                 => \E c \in Codes :
                      OtpLive(u, "EMAIL_VERIFICATION", NoOrder)'
                        = {Issued(u, "EMAIL_VERIFICATION", c)}
     /\ (procs[1].pc = "idle" /\ procs'[1].op = "AuthVerifyOTP")
          => \A u \in Users, t \in AuthTypes, c \in Codes :
               AuthVerifyOTP(1, u, t, c)
                 => \A r \in OtpLive(u, t, NoOrder) :
                      r.code = c
                        => /\ procs'[1].pc = "mark_verified"
                           /\ otps' = Consume(r)]_vars

\* A request has failed on its notification and the code it stored is the
\* live record of its tuple.
C23_Witness ==
  /\ procs[1].pc = "done"
  /\ procs[1].op = "requestOTPVerification"
  /\ procs[1].res = Err("NotificationFailed")
  /\ \E c \in Codes :
       OtpLive("c1", "EMAIL_VERIFICATION", NoOrder)
         = {Issued("c1", "EMAIL_VERIFICATION", c)}

\* C24: a createOrder that is sent again after its OTP issuance failed leaves
\* one persisted order for the request.  createOrder takes a first request
\* only while fewer than MaxOrders orders are stored, so the store holds no
\* more than MaxOrders orders unless a retry has persisted its order a second
\* time.
C24_RetryPersistsOnce == Len(orders) <= MaxOrders

\* C25: an update is accepted exactly when the subject has no stored sample,
\* or at least 5 seconds have passed since its last one and the great-circle
\* distance from it is at most what 120 km/h covers in that time (100 m in
\* 3 s); within 5 seconds it is refused as too frequent whatever the
\* distance, and otherwise an excess distance is refused as an implausible
\* speed.  A jump of 500 km in 1 s is refused and one of 1 km in 60 s is
\* accepted.
C25_ValidateAccepts ==
  [][(locProcs[1].pc = "idle" /\ locProcs'[1].op = "updateLocation")
       => \A u \in LocSubjects, l \in Latitudes, o \in OnlineFlags :
            updateLocation(1, u, l, o)
              => LET last == getLatestLocation(u)
                     dt == now - last.createdAt
                     d == calculateDistance(last.latitude, last.longitude,
                                            l, Longitude)
                     accepted == locProcs'[1].pc = "update_user_location"
                     refused(reason) == /\ locProcs'[1].pc = "done"
                                        /\ locProcs'[1].res = Err(reason)
                 IN /\ accepted <=> \/ last = NoLocation
                                    \/ dt >= 5 /\ 3 * d <= 100 * dt
                    /\ (last # NoLocation /\ dt < 5) => refused("TooFrequent")
                    /\ (last # NoLocation /\ dt >= 5 /\ 3 * d > 100 * dt)
                         => refused("ImplausibleSpeed")
                    /\ (last # NoLocation /\ dt = 1 /\ d >= 500000)
                         => ~accepted
                    /\ (last # NoLocation /\ dt = 60 /\ d <= 1001)
                         => accepted]_vars

\* A sample 1 km from the one before it and 60 s after it has been accepted
\* and stored, and the next update, 500 km away 5 s later, has been refused
\* as an implausible speed.
C25_Witness ==
  /\ locProcs[1].pc = "done"
  /\ locProcs[1].res = Err("ImplausibleSpeed")
  /\ \E i \in DOMAIN locations :
       /\ i > 1
       /\ locations[i].createdAt - locations[i - 1].createdAt = 60
       /\ calculateDistance(locations[i - 1].latitude, Longitude,
                            locations[i].latitude, Longitude) \in 1000..1001

\* C26: the validation of an update, whether it accepts or refuses, leaves
\* the stored samples, the partner records and their online flags as they
\* were; a request goes on to store its sample only when the validation of
\* that sample against the subject's last one accepted it, and the store
\* grows only by the sample of such a request.
C26_ValidateIsPure ==
  [][/\ (locProcs[1].pc = "idle" /\ locProcs'[1].op = "updateLocation")
          => /\ locations' = locations
             /\ partnerInfo' = partnerInfo
             /\ locProcs'[1].pc = "update_user_location"
                  => validate(getLatestLocation(locProcs'[1].user),
                              locProcs'[1].latitude, Longitude).isValid
     /\ locProcs'[1].pc = "update_user_location"
          => locProcs[1].pc \in {"idle", "update_user_location"}
     /\ locations' # locations
          => /\ locProcs[1].pc = "update_user_location"
             /\ locations' = Append(locations,
                  [userId |-> locProcs[1].user,
                   latitude |-> locProcs[1].latitude,
                   longitude |-> Longitude, createdAt |-> now])]_vars

\* An update has been refused as too frequent; the store holds the one
\* sample, and the partner the online flag, that an accepted update left.
C26_Witness ==
  /\ locProcs[1].pc = "done"
  /\ locProcs[1].res = Err("TooFrequent")
  /\ Len(locations) = 1
  /\ partnerInfo["p1"].isOnline

\* The stored samples of a subject, oldest first.
SamplesOf(u) == SelectSeq(locations, LAMBDA x : x.userId = u)

\* C27: whatever the interleaving of the updates, every stored sample of a
\* subject is at least 5 seconds later than the stored sample before it and
\* no farther from it than 120 km/h covers in the time between them.
C27_StoredSamplesPlausible ==
  \A u \in LocSubjects :
    \A i \in 2..Len(SamplesOf(u)) :
      LET a == SamplesOf(u)[i - 1]
          b == SamplesOf(u)[i]
          dt == b.createdAt - a.createdAt
      IN /\ dt >= 5
         /\ 3 * calculateDistance(a.latitude, a.longitude,
                                  b.latitude, b.longitude) <= 100 * dt

InvalidQuery ==
  {Err("InvalidLatitude"), Err("InvalidLongitude"), Err("InvalidRadius")}

\* C29: a search whose latitude is outside [-90, 90], whose longitude is
\* outside [-180, 180] or whose radius is not in (0, 100] km fails as an
\* invalid query and never gets to ask the index; any other search asks the
\* index with its query and returns the answer of the index as it is.
C29_FindNearbyValidates ==
  [][/\ (locProcs[1].pc = "idle"
           /\ locProcs'[1].op = "findNearbyDeliveryPartners")
          => \A la \in QueryLatitudes, lo \in QueryLongitudes, r \in QueryRadii :
               findNearbyDeliveryPartners(1, la, lo, r)
                 => IF \/ la \notin -90000..90000
                       \/ lo \notin -180000..180000
                       \/ ~(0 < r /\ r <= 100000)
                      THEN /\ locProcs'[1].pc = "done"
                           /\ locProcs'[1].res \in InvalidQuery
                      ELSE /\ locProcs'[1].pc = "find_nearby"
                           /\ locProcs'[1].latitude = la
                           /\ locProcs'[1].longitude = lo
                           /\ locProcs'[1].radius = r
     /\ (locProcs[1].pc = "find_nearby" /\ locProcs'[1] # locProcs[1])
          => /\ locProcs'[1].pc = "done"
             /\ locProcs'[1].res = Ok
             /\ locProcs'[1].result
                  = SelectSeq(index, LAMBDA c :
                      calculateDistance(locProcs[1].latitude,
                                        locProcs[1].longitude,
                                        c.latitude, Longitude)
                        <= locProcs[1].radius)
     /\ index' = index]_vars

\* A search has returned the one partner of an index of two that is within
\* its radius.
C29_Witness ==
  /\ locProcs[1].pc = "done"
  /\ locProcs[1].op = "findNearbyDeliveryPartners"
  /\ locProcs[1].res = Ok
  /\ Len(index) = 2
  /\ locProcs[1].result = <<index[2]>>

\* C30: the ranking returns no candidate when the search within the radius
\* is empty; otherwise it returns, with its score, the candidate that is the
\* first, in the order of the index, of those whose score is minimal among
\* the candidates within the radius.
C30_RankReturnsBest ==
  [][(locProcs[1].pc = "rank" /\ locProcs'[1].pc = "done")
       => LET near == RepoFindNearby(locProcs[1].latitude,
                                     locProcs[1].longitude, locProcs[1].radius)
              scored(i) == Scored(near[i], locProcs[1].latitude,
                                  locProcs[1].delivery)
              minimal == {i \in DOMAIN near :
                            \A j \in DOMAIN near :
                              scored(i).score <= scored(j).score}
              first == CHOOSE i \in minimal : \A j \in minimal : i <= j
          IN IF near = <<>>
               THEN locProcs'[1].result = <<>>
               ELSE locProcs'[1].result = <<scored(first)>>]_vars

\* Of two partners within the radius the second of the index, 555 m from
\* the pickup and nearer to the delivery than the first, has been returned.
C30_Witness ==
  /\ locProcs[1].pc = "done"
  /\ locProcs[1].op = "findOptimalDeliveryPartner"
  /\ Len(index) = 2
  /\ index[1].latitude = 12971
  /\ Len(locProcs[1].result) = 1
  /\ locProcs[1].result[1].partner = index[2]
  /\ locProcs[1].result[1].pickupDistance = 555

\* C31: of two candidates within the radius that are at the same distances
\* from the pickup and the delivery and have completed as many deliveries,
\* the one with the higher rating gets the strictly lower score, and the
\* other one is not the candidate returned, wherever the two stand in the
\* answer of the index.
C31_HigherRatingWins ==
  [][(locProcs[1].pc = "rank" /\ locProcs'[1].pc = "done")
       => LET near == RepoFindNearby(locProcs[1].latitude,
                                     locProcs[1].longitude, locProcs[1].radius)
              scored(i) == Scored(near[i], locProcs[1].latitude,
                                  locProcs[1].delivery)
          IN \A i, j \in DOMAIN near :
               ( /\ scored(i).pickupDistance = scored(j).pickupDistance
                 /\ scored(i).deliveryDistance = scored(j).deliveryDistance
                 /\ near[i].completedDeliveries = near[j].completedDeliveries
                 /\ near[i].rating > near[j].rating )
                 => /\ scored(i).score < scored(j).score
                    /\ locProcs'[1].result[1].partner # near[j]]_vars

\* The surcharge of a tier, in currency units.
Surcharge(tier) ==
  CASE tier = "standard" -> 25
    [] tier = "express" -> 100
    [] tier = "same_day" -> 200
    [] tier = "scheduled" -> 50

\* The sum of the weights of the items, an item without a weight counting 0.
RECURSIVE WeightSum(_)
WeightSum(items) ==
  IF items = <<>> THEN 0
  ELSE (IF Head(items).hasWeight THEN Head(items).weight ELSE 0)
         + WeightSum(Tail(items))

\* C32: pricing changes nothing but its result, which depends on the order
\* data alone and has subtotal = 50 + 10 x distance + 5 x totalWeight +
\* surcharge(tier), a tax of 18% of the subtotal and a total of 1.18 times
\* the subtotal.
C32_PriceFormula ==
  [][(procs[1].pc = "price" /\ procs'[1].pc = "priced")
       => LET in == procs[1].price
              out == procs'[1].price.pricing
              subtotal == 10000 * 50
                            + 10 * 10 * calculateDistance(in.pickup, Longitude,
                                                          in.delivery, Longitude)
                            + 5 * 1000 * WeightSum(in.items)
                            + 10000 * Surcharge(in.deliveryType)
          IN /\ out.basePrice + out.distanceCharge + out.weightCharge
                  + out.deliveryCharge = subtotal
             /\ 100 * out.taxAmount = 18 * subtotal
             /\ 100 * out.totalAmount = 118 * subtotal
             /\ procs'[1].price = [in EXCEPT !.pricing = out]
             /\ UNCHANGED <<orders, otps, partnerRatings, verified, locvars>>]_vars

\* An express order of two items, one of them without a weight, has been
\* priced over a distance of 1 km.
C32_Witness ==
  /\ procs[1].pc = "priced"
  /\ procs[1].price.deliveryType = "express"
  /\ Len(procs[1].price.items) = 2
  /\ ~procs[1].price.items[1].hasWeight
  /\ procs[1].price.items[2].weight = 25
  /\ procs[1].price.pricing.distanceCharge = 100000
  /\ procs[1].price.pricing.totalAmount = 2035500

\* C33: in every reachable state an order that is CONFIRMED, PICKED_UP,
\* IN_TRANSIT, OUT_FOR_DELIVERY or DELIVERED has a delivery partner and an
\* order that is PENDING has none.
C33_PartnerIffConfirmed ==
  \A id \in DOMAIN orders :
    /\ Order(id).status
         \in {"CONFIRMED", "PICKED_UP", "IN_TRANSIT", "OUT_FOR_DELIVERY",
              "DELIVERED"}
         => Order(id).deliveryPartnerId # NoPartner
    /\ Order(id).status = "PENDING"
         => Order(id).deliveryPartnerId = NoPartner

\* The statuses of an order that the verify operation's target status or a
\* later stage of the delivery has been reached.
Advanced(op) ==
  IF op = "verifyPickupOTP"
    THEN {"PICKED_UP", "IN_TRANSIT", "OUT_FOR_DELIVERY", "DELIVERED", "RETURNED"}
    ELSE {"DELIVERED"}

\* C34: under any interleaving of the handlers, when a verifyPickupOTP or
\* verifyDeliveryOTP call whose code matched and was consumed comes to its
\* end, the order is PICKED_UP or later (DELIVERED for the delivery code):
\* no code is consumed by a correct submission while the order stays behind.
C34_ConsumedOnlyIfAdvanced ==
  [][(/\ procs[1].op \in VerifyOps
      /\ procs[1].pc \in {"verify_update", "update_write"}
      /\ procs'[1].pc = "done")
       => orders'[procs[1].oid].status \in Advanced(procs[1].op)]_vars

\* C35: when a cancelOrder call completes successfully the order's payment
\* status is not COMPLETED: a payment that was COMPLETED when the
\* cancellation was written has been set to REFUNDED, also when the payment
\* was completed between the call's read of the order and its writes.
C35_CancelledNeverPaid ==
  [][(/\ procs[1].op = "cancelOrder"
      /\ procs[1].pc \in {"cancel_write", "cancel_refund"}
      /\ procs'[1].pc = "done"
      /\ procs'[1].res = Ok)
       => orders'[procs[1].oid].paymentStatus # "COMPLETED"]_vars

\* C36: resetPassword accepts no code that was issued for e-mail
\* verification: while the last code issued for the user comes from
\* requestOTPVerification, no resetPassword call gets past the check of the
\* code to the change of the password.
C36_ResetNeedsResetCode ==
  [][(/\ procs[1].pc = "done"
      /\ procs[1].op = "requestOTPVerification"
      /\ procs[1].res = Ok
      /\ procs[2].pc = "idle")
       => procs'[2].pc # "reset_write"]_vars

\* C37: an updateLocation request during which the lookup of the subject's
\* last location raises an error is answered as invalid with the reason
\* 'Validation error'; it stores no sample and changes no partner state.
C37_ValidationFailsClosed ==
  [][\A u \in LocSubjects, l \in Latitudes, o \in OnlineFlags :
       updateLocationLookupFails(1, u, l, o)
         => /\ locProcs'[1].pc = "done"
            /\ locProcs'[1].res = Err("ValidationError")
            /\ UNCHANGED <<locations, partnerInfo>>]_vars

\* A request of a subject with stored samples has been refused because the
\* lookup failed.
C37_Witness ==
  /\ locProcs[1].pc = "done"
  /\ locProcs[1].res = Err("ValidationError")
  /\ locations # <<>>

\* C38: once register has created the user, a failure to store a
\* verification code or to send the verification e-mail ends the call with
\* the successful result (the user and the tokens); the created user stays
\* and no step after the creation ends the registration with an error.
C38_RegisterSurvivesFailure ==
  [][(/\ procs[1].op = "register"
      /\ procs[1].pc \in {"register_email_otp", "register_phone_otp",
                          "register_send"})
       => /\ verified \subseteq verified'
          /\ <<procs[1].user, "account">> \in verified'
          /\ registerVerificationFails(1)
                => procs'[1].pc = "done" /\ procs'[1].res = Ok
          /\ procs'[1].pc = "done" => procs'[1].res = Ok]_vars

\* A registration has returned successfully for a user that has an account
\* and no e-mail verification code: storing the code failed.
C38_Witness ==
  /\ procs[1].pc = "done"
  /\ procs[1].op = "register"
  /\ procs[1].res = Ok
  /\ \E e \in RegisterEmails :
       /\ <<e, "account">> \in verified
       /\ OtpMatching(e, "EMAIL_VERIFICATION") = {}

====
